---- MODULE Spec2Model ----
(***************************************************************************)
(* Verification model of the segment-dispatch, time-reconciliation and     *)
(* validation engine of the multimodal transcription pipeline.             *)
(*                                                                         *)
(* Conventions.  Times are integers in milliseconds (59.999 s = 59999).    *)
(* A piece of text is a sequence of one-character strings, so that         *)
(* split(':'), int() and float() are computed character by character.      *)
(* A value that Python would hold in a variable of unknown type is a       *)
(* record [isStr |-> BOOLEAN, chars |-> text].                             *)
(***************************************************************************)
EXTENDS Integers, Sequences, FiniteSets, TLC

(***************************************************************************)
(* Bounds of the model.                                                    *)
(***************************************************************************)
MaxDurationHalves == 24
MaxChunkDuration == 5

(***************************************************************************)
(* Text helpers: Python's str.split(':'), int() and float().               *)
(***************************************************************************)
DigitChars == {"0", "1", "2", "3", "4", "5", "6", "7", "8", "9"}

DigitVal(c) ==
  CASE c = "0" -> 0 [] c = "1" -> 1 [] c = "2" -> 2 [] c = "3" -> 3
    [] c = "4" -> 4 [] c = "5" -> 5 [] c = "6" -> 6 [] c = "7" -> 7
    [] c = "8" -> 8 [] c = "9" -> 9

AllDigits(s) == \A i \in 1..Len(s) : s[i] \in DigitChars

RECURSIVE NatOf(_)
NatOf(s) == IF s = <<>> THEN 0
            ELSE 10 * NatOf(SubSeq(s, 1, Len(s) - 1)) + DigitVal(s[Len(s)])

IndexOf(s, c) ==
  IF \E i \in 1..Len(s) : s[i] = c
  THEN CHOOSE i \in 1..Len(s) : s[i] = c /\ \A j \in 1..(i - 1) : s[j] # c
  ELSE 0

RECURSIVE split(_, _)
split(s, c) ==
  LET k == IndexOf(s, c)
  IN IF k = 0 THEN <<s>>
     ELSE <<SubSeq(s, 1, k - 1)>> \o split(SubSeq(s, k + 1, Len(s)), c)

\* The digits and the sign of a numeric text.
Unsigned(s) == IF s # <<>> /\ s[1] \in {"-", "+"} THEN Tail(s) ELSE s
Sign(s) == IF s # <<>> /\ s[1] = "-" THEN -1 ELSE 1

\* int(text): [ok, val]; ok = FALSE stands for ValueError.
py_int(s) ==
  IF Unsigned(s) # <<>> /\ AllDigits(Unsigned(s))
  THEN [ok |-> TRUE, val |-> Sign(s) * NatOf(Unsigned(s))]
  ELSE [ok |-> FALSE, val |-> 0]

\* The first three decimals of a fraction text, in milliseconds.
FracMs(f) ==
  LET d(i) == IF i <= Len(f) THEN DigitVal(f[i]) ELSE 0
  IN 100 * d(1) + 10 * d(2) + d(3)

\* The texts before and after the decimal point.
IntPart(body) ==
  IF IndexOf(body, ".") = 0 THEN body
  ELSE SubSeq(body, 1, IndexOf(body, ".") - 1)
FracPart(body) ==
  IF IndexOf(body, ".") = 0 THEN <<>>
  ELSE SubSeq(body, IndexOf(body, ".") + 1, Len(body))

FloatOfParts(sgn, ip, fp) ==
  IF AllDigits(ip) /\ AllDigits(fp) /\ Len(ip) + Len(fp) > 0
  THEN [ok |-> TRUE, val |-> sgn * (1000 * NatOf(ip) + FracMs(fp))]
  ELSE [ok |-> FALSE, val |-> 0]

\* float(text) in milliseconds: [ok, val]; ok = FALSE stands for ValueError.
py_float(s) ==
  FloatOfParts(Sign(s), IntPart(Unsigned(s)), FracPart(Unsigned(s)))

Str(chars) == [isStr |-> TRUE, chars |-> chars]
NoneValue == [isStr |-> FALSE, chars |-> <<>>]

(***************************************************************************)
(* utils/video_utils.py: parse_timestamp and format_timestamp.             *)
(***************************************************************************)
\* A plausible slip: the bound is tested but the value is left as it is.
clamp_seconds_unclamped(seconds_float) == seconds_float

\* if seconds_float >= 60: seconds_float = 59.999
clamp_seconds(seconds_float) ==
  IF seconds_float >= 60000 THEN 59999 ELSE seconds_float

\* if minutes_int >= 60: minutes_int = 59   (HH:MM:SS only)
clamp_minutes(minutes_int) == IF minutes_int >= 60 THEN 59 ELSE minutes_int

\* MM:SS, given int(minutes) and float(seconds): [raised, val].
parse_minutes_seconds(minutes_int, seconds_float) ==
  IF ~minutes_int.ok \/ ~seconds_float.ok
  THEN [raised |-> TRUE, val |-> 0]
  ELSE [raised |-> FALSE,
        val |-> minutes_int.val * 60000 + clamp_seconds(seconds_float.val)]

\* HH:MM:SS, given int(hours), int(minutes) and float(seconds).
parse_hours_minutes_seconds(hours_int, minutes_int, seconds_float) ==
  IF ~hours_int.ok \/ ~minutes_int.ok \/ ~seconds_float.ok
  THEN [raised |-> TRUE, val |-> 0]
  ELSE [raised |-> FALSE,
        val |-> hours_int.val * 3600000
                + clamp_minutes(minutes_int.val) * 60000
                + clamp_seconds(seconds_float.val)]

\* return float(timestamp)
parse_plain_float(whole) == [raised |-> ~whole.ok, val |-> whole.val]

\* The branches on len(parts), parts = timestamp.split(':').
parse_timestamp_parts(timestamp, parts) ==
  IF Len(parts) = 2 THEN
    parse_minutes_seconds(py_int(parts[1]), py_float(parts[2]))
  ELSE IF Len(parts) = 3 THEN
    parse_hours_minutes_seconds(py_int(parts[1]), py_int(parts[2]),
                                py_float(parts[3]))
  ELSE parse_plain_float(py_float(timestamp.chars))

\* The body of the try block: [raised, val].  None.split raises.
parse_timestamp_body(timestamp) ==
  IF ~timestamp.isStr THEN [raised |-> TRUE, val |-> 0]
  ELSE parse_timestamp_parts(timestamp, split(timestamp.chars, ":"))

\* except Exception: return 0.0
except_return_zero(body) ==
  [threw |-> FALSE, val |-> IF body.raised THEN 0 ELSE body.val]

\* threw tells whether the call raised.
parse_timestamp(timestamp) ==
  except_return_zero(parse_timestamp_body(timestamp))

RECURSIVE NatText(_)
NatText(n) ==
  LET d == <<"0", "1", "2", "3", "4", "5", "6", "7", "8", "9">>
  IN IF n < 10 THEN <<d[n + 1]>> ELSE NatText(n \div 10) \o <<d[(n % 10) + 1]>>

\* f"{n:0{w}d}" for n >= 0.
RECURSIVE Pad(_, _)
Pad(t, w) == IF Len(t) >= w THEN t ELSE Pad(<<"0">> \o t, w)

format_timestamp(seconds) ==
  LET hours == seconds \div 3600000
      minutes == (seconds % 3600000) \div 60000
      secs == (seconds % 60000) \div 1000
      milliseconds == seconds % 1000
      tail == Pad(NatText(minutes), 2) \o <<":">> \o Pad(NatText(secs), 2)
              \o <<".">> \o Pad(NatText(milliseconds), 3)
  IN IF hours > 0 THEN Pad(NatText(hours), 2) \o <<":">> \o tail ELSE tail

(***************************************************************************)
(* core/chunking/video_chunker.py: time-based boundaries of create_chunks. *)
(* duration is the clip duration in milliseconds (a float in the source),  *)
(* chunk_duration is in whole seconds, as TranscriptionConfig declares it. *)
(***************************************************************************)
\* range(from, stop, step)
RECURSIVE py_range(_, _, _)
py_range(from, stop, step) ==
  IF from >= stop THEN <<>> ELSE <<from>> \o py_range(from + step, stop, step)

Min(a, b) == IF a <= b THEN a ELSE b

\* for i in range(0, int(duration), chunk_duration):
\*     (i, min(i + chunk_duration, duration))
time_based_boundaries(duration, chunk_duration) ==
  LET starts == py_range(0, duration \div 1000, chunk_duration)
  IN [k \in 1..Len(starts) |->
        [start_time |-> starts[k] * 1000,
         end_time |-> Min((starts[k] + chunk_duration) * 1000, duration)]]

(***************************************************************************)
(* core/chunking/video_chunker.py: _calculate_size_based_chunks.  Sizes    *)
(* are in KB (floats in MB in the source), times in milliseconds, and a    *)
(* quotient is rounded down to the unit.  A file is                        *)
(* [original_size, samples]: the size of the video file and, for each of   *)
(* the temporary sample chunks, whether ffmpeg produced it and its size.   *)
(* A file that was written has a positive size.                            *)
(***************************************************************************)
\* max(1, int(original_size_mb / target_size_mb))
estimated_chunks(original_size, target_size_mb) ==
  IF original_size \div (target_size_mb * 1024) >= 1
  THEN original_size \div (target_size_mb * 1024) ELSE 1

\* The i-th sample (i from 0), of chunk_duration_estimate each.
sample_chunk(i, chunk_duration_estimate, duration, sample) ==
  [start_time |-> i * chunk_duration_estimate,
   end_time |-> Min((i + 1) * chunk_duration_estimate, duration),
   size |-> sample.size, ok |-> sample.ok]

\* for i in range(min(3, estimated_chunks)): the samples ffmpeg produced.
sample_chunks(duration, n_chunks, samples) ==
  SelectSeq([k \in 1..Min(3, n_chunks) |->
               sample_chunk(k - 1, duration \div n_chunks, duration, samples[k])],
            LAMBDA s : s.ok)

RECURSIVE sum_sample_durations(_)
sum_sample_durations(sampled) ==
  IF sampled = <<>> THEN 0
  ELSE (sampled[1].end_time - sampled[1].start_time)
         + sum_sample_durations(Tail(sampled))

RECURSIVE sum_sample_sizes(_)
sum_sample_sizes(sampled) ==
  IF sampled = <<>> THEN 0 ELSE sampled[1].size + sum_sample_sizes(Tail(sampled))

\* target_size_mb / size_per_second, where size_per_second is
\* total_size / total_duration of the samples, target_size_mb / 60 when the
\* samples have no duration, and original_size_mb / duration without samples.
target_duration_of(target_size_mb, total_duration, total_size) ==
  IF total_duration > 0
  THEN (target_size_mb * 1024 * total_duration) \div total_size
  ELSE 60000

target_duration(duration, target_size_mb, original_size, sampled) ==
  IF sampled # <<>>
  THEN target_duration_of(target_size_mb, sum_sample_durations(sampled),
                          sum_sample_sizes(sampled))
  ELSE (target_size_mb * 1024 * duration) \div original_size

\* An interval of the target duration wherever it starts.
chunk_end_unclamped(current_time, duration, target) == current_time + target

\* chunk_duration = min(target_duration, remaining_duration)
\* end_time = current_time + chunk_duration
chunk_end(current_time, duration, target) ==
  current_time + Min(target, duration - current_time)

\* while current_time < duration: ... chunk_boundaries.append(...)
RECURSIVE boundary_walk(_, _, _)
boundary_walk(current_time, duration, step) ==
  IF current_time >= duration THEN <<>>
  ELSE <<[start_time |-> current_time,
          end_time |-> chunk_end(current_time, duration, step)]>>
         \o boundary_walk(chunk_end(current_time, duration, step),
                          duration, step)

size_based_boundaries(duration, target_size_mb, file) ==
  boundary_walk(
    0, duration,
    target_duration(
      duration, target_size_mb, file.original_size,
      sample_chunks(duration,
                    estimated_chunks(file.original_size, target_size_mb),
                    file.samples)))

\* config.chunk_size_mb: None, or a number of MB.
NoChunkSize == [set |-> FALSE, mb |-> 0]
ChunkSize(mb) == [set |-> TRUE, mb |-> mb]

\* create_chunks: if config.chunk_size_mb is not None: size-based, else the
\* time-based loop.
chunk_boundaries(duration, chunk_duration, chunk_size_mb, file) ==
  IF chunk_size_mb.set
  THEN size_based_boundaries(duration, chunk_size_mb.mb, file)
  ELSE time_based_boundaries(duration, chunk_duration)

(***************************************************************************)
(* models.py: TranscriptionConfig._validate.                               *)
(***************************************************************************)
\* ModelType: the values of the enum.
ModelTypes == {<<"gemini-2.5-pro">>, <<"gemini-1.5-pro">>}

\* _validate: max_workers <= 0 or max_workers > 16 raise ValueError.
max_workers_refused(max_workers) == max_workers <= 0 \/ max_workers > 16

\* _validate without the upper limit of chunk_duration.
validate_raises_no_upper_limit(config) ==
  \/ config.video_input = <<>>
  \/ config.chunk_duration <= 0
  \/ config.chunk_size_mb.set /\ config.chunk_size_mb.mb <= 0
  \/ config.chunk_size_mb.set /\ config.chunk_size_mb.mb > 1000
  \/ max_workers_refused(config.max_workers)
  \/ config.model \notin ModelTypes

\* TranscriptionConfig._validate, run by __post_init__: TRUE when it raises
\* ValueError.
validate_raises(config) ==
  \/ config.video_input = <<>>
  \/ config.chunk_duration <= 0
  \/ config.chunk_duration > 3600
  \/ config.chunk_size_mb.set /\ config.chunk_size_mb.mb <= 0
  \/ config.chunk_size_mb.set /\ config.chunk_size_mb.mb > 1000
  \/ max_workers_refused(config.max_workers)
  \/ config.model \notin ModelTypes

(***************************************************************************)
(* Python dicts: a dict is a function from its keys.  An item of a JSON    *)
(* list is [isDict, fields]; isDict = FALSE is a string, number or null.   *)
(***************************************************************************)
Has(d, k) == k \in DOMAIN d
Get(d, k, default) == IF k \in DOMAIN d THEN d[k] ELSE default
Put(d, k, v) == [x \in (DOMAIN d) \cup {k} |-> IF x = k THEN v ELSE d[x]]
PutIfAbsent(d, k, v) == IF Has(d, k) THEN d ELSE Put(d, k, v)

RECURSIVE PutAll(_, _)
PutAll(d, kvs) ==
  IF kvs = <<>> THEN d ELSE PutAll(Put(d, kvs[1][1], kvs[1][2]), Tail(kvs))

Dict(fields) == [isDict |-> TRUE, fields |-> fields]
NonDictItem == [isDict |-> FALSE, fields |-> [scalar |-> TRUE]]

(***************************************************************************)
(* core/transcription/transcript_analyzer.py: _process_transcript_entry.   *)
(* start_time is the chunk's start offset in milliseconds.                 *)
(***************************************************************************)
\* The keys written when both timestamps were parsed.
WithAbsoluteTimes(f, time_text, absolute_start_time, absolute_end_time) ==
  PutAll(f, << <<"absolute_start_time", absolute_start_time>>,
               <<"absolute_end_time", absolute_end_time>>,
               <<"absolute_start_timestamp",
                 format_timestamp(absolute_start_time)>>,
               <<"absolute_end_timestamp",
                 format_timestamp(absolute_end_time)>>,
               <<"time", time_text>>,
               <<"absolute_time", absolute_start_time>>,
               <<"absolute_timestamp",
                 format_timestamp(absolute_start_time)>> >>)

\* The except branches: fall back to the chunk start.
FallbackTimes(f, start_time) ==
  WithAbsoluteTimes(f, Str(<<"0", "0", ":", "0", "0">>), start_time, start_time)

\* visual_description defaults to the event description.
EventVisualDefault(g) ==
  PutIfAbsent(g, "visual_description", g["event_description"])

TypeDefaults(f) ==
  IF f["type"] = "utterance" THEN
    PutIfAbsent(PutIfAbsent(PutIfAbsent(f, "speaker", "speaker"),
                            "spoken_text", <<>>),
                "visual_description", <<>>)
  ELSE IF f["type"] = "event" THEN
    EventVisualDefault(
      PutIfAbsent(PutIfAbsent(PutIfAbsent(f, "event_description", <<>>),
                              "speaker", ""),
                  "spoken_text", <<>>))
  ELSE f

\* if 'type' in entry: the defaults of its type; else: 'utterance'.
TypedEntry(timed) ==
  IF Has(timed, "type") THEN TypeDefaults(timed)
  ELSE Put(timed, "type", "utterance")

\* The branch  'start_time' in entry and 'end_time' in entry, given the two
\* parsed timestamps.
StartEndEntry(f, start_time, chunk_start_time, chunk_end_time) ==
  IF chunk_start_time.threw \/ chunk_end_time.threw
  THEN FallbackTimes(f, start_time)
  ELSE TypedEntry(WithAbsoluteTimes(f, f["start_time"],
                                    start_time + chunk_start_time.val,
                                    start_time + chunk_end_time.val))

\* The legacy branch  'time' in entry, given the parsed timestamp.
LegacyTimeEntry(f, start_time, chunk_time) ==
  IF chunk_time.threw
  THEN PutAll(FallbackTimes(f, start_time),
              << <<"time", f["time"]>>,
                 <<"start_time", Str(<<"0", "0", ":", "0", "0">>)>>,
                 <<"end_time", Str(<<"0", "0", ":", "0", "0">>)>> >>)
  ELSE PutIfAbsent(
         PutAll(WithAbsoluteTimes(f, f["time"], start_time + chunk_time.val,
                                  start_time + chunk_time.val),
                << <<"start_time", f["time"]>>,
                   <<"end_time", f["time"]>> >>),
         "type", "utterance")

process_transcript_entry_fields(f, start_time) ==
  IF Has(f, "start_time") /\ Has(f, "end_time") THEN
    StartEndEntry(f, start_time, parse_timestamp(f["start_time"]),
                  parse_timestamp(f["end_time"]))
  ELSE IF Has(f, "time") THEN
    LegacyTimeEntry(f, start_time, parse_timestamp(f["time"]))
  ELSE
    PutIfAbsent(PutAll(FallbackTimes(f, start_time),
                       << <<"start_time", Str(<<"0", "0", ":", "0", "0">>)>>,
                          <<"end_time", Str(<<"0", "0", ":", "0", "0">>)>> >>),
                "type", "utterance")

\* if isinstance(entry, dict): ...; return entry
process_transcript_entry(entry, start_time) ==
  IF entry.isDict
  THEN Dict(process_transcript_entry_fields(entry.fields, start_time))
  ELSE entry

(***************************************************************************)
(* ai/gemini_client.py: the transcription call and _parse_response.        *)
(* A JSON value is [t, v]: t in {"list", "object", "null", "string"}, v    *)
(* the items of a list or the fields of an object.  A response text is a   *)
(* sequence of tokens: the fences "```json" and "```", and a body that is  *)
(* a JSON value or text that json.loads rejects.                           *)
(***************************************************************************)
JList(items) == [t |-> "list", v |-> items]
JObject(fields) == [t |-> "object", v |-> fields]
JNull == [t |-> "null", v |-> <<>>]
JString == [t |-> "string", v |-> <<>>]
NotJson == [t |-> "garbage", v |-> <<>>]
FenceJson == [t |-> "fence_json", v |-> <<>>]
Fence == [t |-> "fence", v |-> <<>>]

\* {"transcript": [], "error": msg}
ErrorResult(msg) == [transcript |-> JList(<<>>), error |-> msg]

parse_response(response_text) ==
  LET t1 == IF response_text # <<>> /\ response_text[1] = FenceJson
            THEN Tail(response_text) ELSE response_text
      t2 == IF t1 # <<>> /\ t1[Len(t1)] = Fence
            THEN SubSeq(t1, 1, Len(t1) - 1) ELSE t1
      loads_ok == Len(t2) = 1 /\ t2[1].t \in {"list", "object", "null", "string"}
      loaded == t2[1]
      result == IF loaded.t = "list" THEN [transcript |-> loaded] ELSE loaded.v
  IN IF ~loads_ok THEN ErrorResult("Expecting value")
     ELSE IF loaded.t \notin {"list", "object"}
       THEN ErrorResult("Unexpected result type")
     ELSE IF ~Has(result, "transcript")
       THEN ErrorResult("No transcript field in response")
     ELSE result

\* analyze_chunk_direct / analyze_chunk_upload: the API call inside try,
\* except Exception as e: return {"transcript": [], "error": str(e)}.
analyze_chunk(outcome) ==
  IF outcome.kind = "api_raises" THEN ErrorResult(outcome.msg)
  ELSE parse_response(outcome.text)

(***************************************************************************)
(* core/transcription/transcript_analyzer.py: analyze_chunk_transcript,    *)
(* the body of one future.  The value is [raised, msg, result]: raised     *)
(* when an exception leaves the function.                                  *)
(***************************************************************************)
\* Python truthiness of a str.
Truthy(s) == s # ""

Raised(msg) == [raised |-> TRUE, msg |-> msg, result |-> <<>>]
Returned(result) == [raised |-> FALSE, msg |-> "", result |-> result]

analyze_chunk_transcript(chunk_info, outcome) ==
  IF outcome.kind = "getsize_raises" THEN Raised(outcome.msg)
  ELSE
    LET result == analyze_chunk(outcome)
        transcript_entries == Get(result, "transcript", JList(<<>>))
    IN IF Truthy(Get(result, "error", "")) THEN Returned(result)
       ELSE IF transcript_entries.t # "list"
         THEN Raised("object is not iterable")
       ELSE Returned(Put(result, "transcript",
              JList([i \in 1..Len(transcript_entries.v) |->
                       process_transcript_entry(transcript_entries.v[i],
                                                chunk_info.start_time)])))

\* try: result = future.result() ... except Exception as e:
\*     {"transcript": [], "error": str(e)}
collect_result(done) ==
  IF done.raised THEN ErrorResult(done.msg) ELSE done.result

(***************************************************************************)
(* core/transcription/transcript_combiner.py: create_full_transcript.      *)
(***************************************************************************)
\* The entries of one chunk's result: .get('transcript', {}).get('transcript', [])
chunk_transcript(chunk_data) ==
  Get(chunk_data.transcript, "transcript", JList(<<>>)).v

\* "absolute_start_time" in entry raises for a number or null, and
\* entry.get raises for every item that is not a dict.
combiner_raises(transcript_analysis) ==
  \E c \in 1..Len(transcript_analysis) :
    \E i \in 1..Len(chunk_transcript(transcript_analysis[c])) :
      ~chunk_transcript(transcript_analysis[c])[i].isDict

\* full_entry = {...}, given the times the branches computed.
full_entry_record(f, absolute_start_time, start_timestamp, end_timestamp) ==
  [time |-> start_timestamp,
   type |-> Get(f, "type", "utterance"),
   speaker |-> Get(f, "speaker", ""),
   spoken_text |-> Get(f, "spoken_text", <<>>),
   event_description |-> Get(f, "event_description", <<>>),
   visual_description |-> Get(f, "visual_description", <<>>),
   absolute_time |-> absolute_start_time,
   absolute_start_timestamp |-> start_timestamp,
   absolute_end_timestamp |-> end_timestamp]

\* else: the legacy format, a single time relative to the chunk.
legacy_full_entry(f, absolute_start_time) ==
  full_entry_record(f, absolute_start_time,
                    format_timestamp(absolute_start_time),
                    format_timestamp(absolute_start_time))

full_entry(entry, chunk_start_time) ==
  IF /\ Has(entry.fields, "absolute_start_time")
     /\ Has(entry.fields, "absolute_end_time")
  THEN full_entry_record(
         entry.fields, entry.fields["absolute_start_time"],
         Get(entry.fields, "absolute_start_timestamp",
             format_timestamp(entry.fields["absolute_start_time"])),
         Get(entry.fields, "absolute_end_timestamp",
             format_timestamp(entry.fields["absolute_end_time"])))
  ELSE legacy_full_entry(
         entry.fields,
         chunk_start_time
           + parse_timestamp(Get(entry.fields, "time",
                                 Str(<<"0", "0", ":", "0", "0">>))).val)

\* for entry in chunk_transcript: full_transcript.append(full_entry)
chunk_entries(items, chunk_start_time) ==
  [i \in 1..Len(items) |-> full_entry(items[i], chunk_start_time)]

\* for chunk_data in chunks: ...
RECURSIVE collect_entries(_)
collect_entries(chunks) ==
  IF chunks = <<>> THEN <<>>
  ELSE collect_entries(SubSeq(chunks, 1, Len(chunks) - 1))
         \o chunk_entries(chunk_transcript(chunks[Len(chunks)]),
                          chunks[Len(chunks)].chunk_info.start_time)

\* The number of sorted entries that stay before a new entry of key
\* absolute_time when ties go before it: the slip of an unstable placement.
place_before_ties(sorted, absolute_time) ==
  Cardinality({i \in 1..Len(sorted) : sorted[i].absolute_time < absolute_time})

\* The number of sorted entries that stay before a new entry of key
\* absolute_time: every entry whose key is not greater (list.sort is stable).
place_after_ties(sorted, absolute_time) ==
  Cardinality({i \in 1..Len(sorted) : sorted[i].absolute_time <= absolute_time})

InsertAt(sorted, n, e) ==
  SubSeq(sorted, 1, n) \o <<e>> \o SubSeq(sorted, n + 1, Len(sorted))

\* One step of full_transcript.sort(key=lambda x: x['absolute_time']).
insert_sorted(sorted, e) ==
  InsertAt(sorted, place_after_ties(sorted, e.absolute_time), e)

RECURSIVE sort_by_absolute_time(_)
sort_by_absolute_time(entries) ==
  IF entries = <<>> THEN <<>>
  ELSE insert_sorted(
         sort_by_absolute_time(SubSeq(entries, 1, Len(entries) - 1)),
         entries[Len(entries)])

Max(a, b) == IF a >= b THEN a ELSE b

RECURSIVE max_absolute_time(_)
max_absolute_time(entries) ==
  IF Len(entries) = 1 THEN entries[1].absolute_time
  ELSE Max(max_absolute_time(SubSeq(entries, 1, Len(entries) - 1)),
           entries[Len(entries)].absolute_time)

\* The metadata and the entries of the combined transcript.
full_transcript_of(all_entries) ==
  [total_entries |-> Len(all_entries),
   total_duration_seconds |-> IF all_entries = <<>> THEN 0
                              ELSE max_absolute_time(all_entries),
   transcript |-> all_entries]

create_full_transcript(transcript_analysis) ==
  full_transcript_of(sort_by_absolute_time(collect_entries(transcript_analysis)))

(***************************************************************************)
(* core/transcription/transcript_formatter.py: create_clean_transcript,    *)
(* followed by CleanTranscript.from_dict (models.py), which restores the   *)
(* deleted empty fields as ''.  A free text is a sequence of lower-case    *)
(* words.                                                                  *)
(***************************************************************************)
\* Python's t[a:b] for 0 <= a <= b.
Slice(t, a, b) == SubSeq(t, a + 1, Min(b, Len(t)))

clean_timestamp(timestamp) ==
  IF Len(timestamp) > 10 THEN Slice(timestamp, 3, 8)
  ELSE IF Len(timestamp) >= 5 /\ (\E i \in 1..Len(timestamp) : timestamp[i] = ":")
    THEN Slice(timestamp, 0, 5)
  ELSE timestamp

clean_entry(entry) ==
  LET end_timestamp == IF entry.absolute_end_timestamp = <<>> THEN entry.time
                       ELSE entry.absolute_end_timestamp
  IN [type |-> entry.type,
      start_time |-> clean_timestamp(entry.time),
      end_time |-> clean_timestamp(end_timestamp),
      speaker |-> IF entry.type \in {"utterance", "event"} THEN entry.speaker
                  ELSE "",
      text |-> IF entry.type = "utterance" THEN entry.spoken_text
               ELSE IF entry.type = "event" THEN entry.event_description
               ELSE <<>>,
      visual |-> IF entry.type \in {"utterance", "event"}
                 THEN entry.visual_description ELSE <<>>]

\* The keys of the dict that create_clean_transcript appends for an entry,
\* once the empty fields have been deleted.  A free text is blank when it
\* has no word.
clean_entry_keys(entry) ==
  {"type", "start_time", "end_time"}
    \cup (IF entry.type \in {"utterance", "event"} /\ entry.speaker # ""
          THEN {"speaker"} ELSE {})
    \cup (IF \/ entry.type = "utterance" /\ entry.spoken_text # <<>>
             \/ entry.type = "event" /\ entry.event_description # <<>>
          THEN {"text"} ELSE {})
    \cup (IF /\ entry.type \in {"utterance", "event"}
             /\ entry.visual_description # <<>>
          THEN {"visual"} ELSE {})

\* The entry as it is written to the clean transcript file.
clean_entry_dict(entry) ==
  [k \in clean_entry_keys(entry) |-> clean_entry(entry)[k]]

create_clean_transcript(full_transcript) ==
  [duration_seconds |-> full_transcript.total_duration_seconds,
   total_entries |-> Len(full_transcript.transcript),
   transcript |-> [i \in 1..Len(full_transcript.transcript) |->
                     clean_entry(full_transcript.transcript[i])]]

(***************************************************************************)
(* core/validation/transcript_validator.py.  An issue is                   *)
(* [issue_type, severity, start_time, end_time, entry_index, chunk_index]; *)
(* indices are 0-based as in the source and -1 stands for None.            *)
(***************************************************************************)
GapThresholdMs == 10000

Issue(issue_type, severity, start_time, end_time, entry_index, chunk_index) ==
  [issue_type |-> issue_type, severity |-> severity,
   start_time |-> start_time, end_time |-> end_time,
   entry_index |-> entry_index, chunk_index |-> chunk_index]

\* float(minutes) * 60 + float(seconds); a ValueError is not caught.
seconds_of_minutes_seconds(minutes, seconds) ==
  [raised |-> ~minutes.ok \/ ~seconds.ok,
   val |-> minutes.val * 60 + seconds.val]

\* float(hours) * 3600 + float(minutes) * 60 + float(seconds)
seconds_of_hours_minutes_seconds(hours, minutes, seconds) ==
  [raised |-> ~hours.ok \/ ~minutes.ok \/ ~seconds.ok,
   val |-> hours.val * 3600 + minutes.val * 60 + seconds.val]

\* try: return float(time_str)  except ValueError: return 0.0
seconds_of_plain_float(whole) ==
  [raised |-> FALSE, val |-> IF whole.ok THEN whole.val ELSE 0]

time_string_parts_to_seconds(time_str, time_parts) ==
  IF Len(time_parts) = 2 THEN
    seconds_of_minutes_seconds(py_float(time_parts[1]), py_float(time_parts[2]))
  ELSE IF Len(time_parts) = 3 THEN
    seconds_of_hours_minutes_seconds(py_float(time_parts[1]),
                                     py_float(time_parts[2]),
                                     py_float(time_parts[3]))
  ELSE seconds_of_plain_float(py_float(time_str))

\* _time_string_to_seconds: [raised, val] in milliseconds.
time_string_to_seconds(time_str) ==
  IF time_str = <<>> THEN [raised |-> FALSE, val |-> 0]
  ELSE time_string_parts_to_seconds(time_str, split(time_str, ":"))

parse_transcript_entries(transcript) ==
  [i \in 1..Len(transcript) |->
     [index |-> i - 1,
      entry |-> transcript[i],
      start_seconds |-> time_string_to_seconds(transcript[i].start_time).val,
      end_seconds |-> time_string_to_seconds(transcript[i].end_time).val]]

parse_transcript_entries_raises(transcript) ==
  \E i \in 1..Len(transcript) :
    \/ time_string_to_seconds(transcript[i].start_time).raised
    \/ time_string_to_seconds(transcript[i].end_time).raised

\* One step of the stable sorted(): e goes after every entry whose key is
\* not greater.
insert_by_start_seconds(rest, e) ==
  InsertAt(rest,
           Cardinality({i \in 1..Len(rest) :
                          rest[i].start_seconds <= e.start_seconds}),
           e)

\* sorted(entries, key=lambda x: x['start_seconds'])
RECURSIVE sorted_by_start_seconds(_)
sorted_by_start_seconds(entries) ==
  IF entries = <<>> THEN <<>>
  ELSE insert_by_start_seconds(
         sorted_by_start_seconds(SubSeq(entries, 1, Len(entries) - 1)),
         entries[Len(entries)])

OfType(entries, entry_type) ==
  SelectSeq(entries, LAMBDA e : e.entry.type = entry_type)

\* The pairs visited by the loop  for i in range(1, len(sorted_entries)).
adjacent_pairs(sorted_entries) ==
  [k \in 1..(Len(sorted_entries) - 1) |->
     [prev |-> sorted_entries[k], curr |-> sorted_entries[k + 1]]]

chronological_order_issues(hits) ==
  [k \in 1..Len(hits) |->
     Issue("chronological_order", "error", hits[k].curr.start_seconds,
           hits[k].curr.end_seconds, hits[k].curr.index, -1)]

check_chronological_order_within_type(entries) ==
  chronological_order_issues(
    SelectSeq(adjacent_pairs(sorted_by_start_seconds(entries)),
              LAMBDA p : /\ p.curr.start_seconds < p.prev.end_seconds
                         /\ p.curr.start_seconds < p.prev.start_seconds))

check_chronological_order(entries) ==
  check_chronological_order_within_type(OfType(entries, "event"))
    \o check_chronological_order_within_type(OfType(entries, "utterance"))

\* The gaps between consecutive entries.
gap_issues(hits) ==
  [k \in 1..Len(hits) |->
     Issue("gap", "warning", hits[k].prev.end_seconds,
           hits[k].curr.start_seconds, hits[k].curr.index, -1)]

\* The gap at the beginning, the gaps between entries, the gap at the end.
check_gaps_sorted(sorted_entries, total_duration) ==
  (IF sorted_entries[1].start_seconds > GapThresholdMs
   THEN <<Issue("gap", "warning", 0, sorted_entries[1].start_seconds, 0, -1)>>
   ELSE <<>>)
  \o gap_issues(SelectSeq(adjacent_pairs(sorted_entries),
                          LAMBDA p : p.curr.start_seconds - p.prev.end_seconds
                                       > GapThresholdMs))
  \o (IF total_duration - sorted_entries[Len(sorted_entries)].end_seconds
           > GapThresholdMs
      THEN <<Issue("gap", "warning",
                   sorted_entries[Len(sorted_entries)].end_seconds,
                   total_duration, Len(sorted_entries) - 1, -1)>>
      ELSE <<>>)

check_gaps(entries, total_duration) ==
  IF entries = <<>> THEN <<>>
  ELSE check_gaps_sorted(sorted_by_start_seconds(entries), total_duration)

overlap_issues(hits) ==
  [k \in 1..Len(hits) |->
     Issue("overlap", "warning", hits[k].curr.start_seconds,
           hits[k].prev.end_seconds, hits[k].curr.index, -1)]

check_overlaps_within_type(entries) ==
  overlap_issues(
    SelectSeq(adjacent_pairs(sorted_by_start_seconds(entries)),
              LAMBDA p : p.curr.start_seconds < p.prev.end_seconds))

\* Overlaps looked for in the whole list, whatever the types.
check_overlaps_all_types(entries) == check_overlaps_within_type(entries)

check_overlaps(entries) ==
  check_overlaps_within_type(OfType(entries, "event"))
    \o check_overlaps_within_type(OfType(entries, "utterance"))

\* error_indicators, as word sequences.
error_indicators ==
  { <<"error", "processing">>, <<"failed", "to", "process">>,
    <<"api", "error">>, <<"network", "error">>, <<"timeout">>,
    <<"service", "unavailable">>, <<"processing", "failed">>,
    <<"chunk", "failed">>, <<"transcription", "error">>,
    <<"analysis", "failed">> }

\* indicator in text_lower
Contains(text, indicator) ==
  \E k \in 0..(Len(text) - Len(indicator)) :
    SubSeq(text, k + 1, k + Len(indicator)) = indicator

indicates_chunk_failure(entry) ==
  entry.text # <<>> /\ \E indicator \in error_indicators :
                         Contains(entry.text, indicator)

failed_chunk_issues_of(failed) ==
  [k \in 1..Len(failed) |->
     Issue("failed_chunk", "error", failed[k].start_seconds,
           failed[k].end_seconds, failed[k].index, -1)]

check_failed_chunks(entries) ==
  failed_chunk_issues_of(
    SelectSeq(entries, LAMBDA e : indicates_chunk_failure(e.entry)))

\* A plausible slip: any issue at all fails the validation.
validation_passed_no_issue(issues) == issues = <<>>

\* error_count = sum(1 for issue in issues if issue.severity == 'error')
\* validation_passed = error_count == 0
validation_passed_of(issues) ==
  ~ \E k \in 1..Len(issues) : issues[k].severity = "error"

\* The chunk indices of the issues selected by
\*    issue.issue_type == 'failed_chunk' and issue.chunk_index is not None
chunk_indices(named) == [k \in 1..Len(named) |-> named[k].chunk_index]

failed_chunk_indices(issues) ==
  chunk_indices(SelectSeq(issues, LAMBDA x : /\ x.issue_type = "failed_chunk"
                                             /\ x.chunk_index # -1))

CountType(issues, issue_type) ==
  Len(SelectSeq(issues, LAMBDA x : x.issue_type = issue_type))

\* validation_results, once every check has added its issues.
validation_results_of(transcript, issues) ==
  [total_entries |-> Len(transcript.transcript),
   total_duration_seconds |-> transcript.duration_seconds,
   issues |-> issues,
   chronological_order_valid |-> CountType(issues, "chronological_order") = 0,
   gaps_found |-> CountType(issues, "gap"),
   failed_chunks |-> failed_chunk_indices(issues),
   overlaps_found |-> CountType(issues, "overlap"),
   validation_passed |-> validation_passed_of(issues)]

\* The four checks, in the order in which they extend the issues.
all_issues(entries_with_times, total_duration) ==
  check_chronological_order(entries_with_times)
    \o check_gaps(entries_with_times, total_duration)
    \o check_overlaps(entries_with_times)
    \o check_failed_chunks(entries_with_times)

validate_transcript_object(transcript) ==
  validation_results_of(
    transcript,
    all_issues(parse_transcript_entries(transcript.transcript),
               transcript.duration_seconds))

\* ValidationIssue(issue_type='failed_chunk', ..., chunk_index=i)
failed_chunk_issue(severity, chunk_info, i) ==
  <<Issue("failed_chunk", severity, chunk_info.start_time,
          chunk_info.end_time, -1, i)>>

\* The issue, if any, that _check_pipeline_failed_chunks makes for chunk i.
pipeline_failed_chunk_issue(chunk_data, i) ==
  IF ~Get(chunk_data, "success", TRUE)
  THEN failed_chunk_issue("error", chunk_data.chunk_info, i)
  ELSE IF Truthy(Get(chunk_data.transcript, "error", ""))
    THEN failed_chunk_issue("error", chunk_data.chunk_info, i)
  ELSE IF DOMAIN chunk_data.transcript = {}
    THEN failed_chunk_issue("warning", chunk_data.chunk_info, i)
  ELSE <<>>

RECURSIVE check_pipeline_failed_chunks(_)
check_pipeline_failed_chunks(chunks) ==
  IF chunks = <<>> THEN <<>>
  ELSE check_pipeline_failed_chunks(SubSeq(chunks, 1, Len(chunks) - 1))
         \o pipeline_failed_chunk_issue(chunks[Len(chunks)], Len(chunks) - 1)

\* The standard results extended by the failed chunk issues.
add_failed_chunk_issues(standard_results, failed_chunk_issues) ==
  [standard_results EXCEPT
     !.issues = @ \o failed_chunk_issues,
     !.failed_chunks = failed_chunk_indices(failed_chunk_issues),
     !.validation_passed = @ /\ Len(failed_chunk_issues) = 0]

\* full_transcript is the clean transcript dict, never empty.
validate_pipeline_results(chunks, full_transcript) ==
  add_failed_chunk_issues(validate_transcript_object(full_transcript),
                          check_pipeline_failed_chunks(chunks))

\* core/pipeline.py, step 6.5: merge the failed chunk issues.
merge_failed_chunks(validation_results, pipeline_validation_results) ==
  IF pipeline_validation_results.failed_chunks # <<>>
  THEN [validation_results EXCEPT
          !.issues = @ \o SelectSeq(pipeline_validation_results.issues,
                                    LAMBDA x : x.issue_type = "failed_chunk"),
          !.failed_chunks = pipeline_validation_results.failed_chunks,
          !.validation_passed =
             @ /\ Len(pipeline_validation_results.failed_chunks) = 0]
  ELSE validation_results

\* The report of one run.
validate_run(transcript_analysis, clean_transcript) ==
  merge_failed_chunks(validate_transcript_object(clean_transcript),
                      validate_pipeline_results(transcript_analysis,
                                                clean_transcript))

(***************************************************************************)
(* The transcription service as the dispatcher sees it.  An outcome of one *)
(* call is [kind, msg, text]: the size probe raises, the API call raises   *)
(* (msg is str(e)), or the service answers with the response text.         *)
(***************************************************************************)
Clock(seconds) ==
  Str(Pad(NatText(seconds \div 60), 2) \o <<":">> \o Pad(NatText(seconds % 60), 2))

Utterance(start, end, speaker, words) ==
  Dict([type |-> "utterance", start_time |-> Clock(start),
        end_time |-> Clock(end), speaker |-> speaker, spoken_text |-> words])

Event(start, end, words) ==
  Dict([type |-> "event", start_time |-> Clock(start), end_time |-> Clock(end),
        event_description |-> words])

Responds(text) == [kind |-> "responds", msg |-> "", text |-> text]
ApiRaises(msg) == [kind |-> "api_raises", msg |-> msg, text |-> <<>>]
GetsizeRaises(msg) == [kind |-> "getsize_raises", msg |-> msg, text |-> <<>>]

\* A well-formed answer for a 12 s segment: no gap, no overlap.
NominalOutcome ==
  Responds(<<JObject([transcript |->
     JList(<<Utterance(0, 6, "A", <<"hello">>),
             Event(0, 12, <<"slide">>),
             Utterance(6, 12, "B", <<"ok">>)>>)])>>)

\* A fenced bare array: two overlapping utterances, and one that starts
\* where the next segment starts.
BareArrayOutcome ==
  Responds(<<FenceJson,
             JList(<<Utterance(4, 8, "A", <<"hi">>),
                     Utterance(6, 12, "B", <<"ok">>),
                     Utterance(12, 12, "A", <<"bye">>)>>),
             Fence>>)

\* The transcribed speech itself mentions a timeout.
TimeoutTextOutcome ==
  Responds(<<JObject([transcript |->
     JList(<<Utterance(0, 12, "A", <<"request", "timeout">>)>>)])>>)

\* An entry whose timestamp has three-digit hours.
LongClockOutcome ==
  Responds(<<JObject([transcript |->
     JList(<<Dict([type |-> "utterance",
                   start_time |-> Str(<<"1", "0", "0", ":", "0", "0", ":", "0", "0">>),
                   end_time |-> Str(<<"1", "0", "0", ":", "0", "0", ":", "0", "1">>),
                   speaker |-> "A", spoken_text |-> <<"late">>])>>)])>>)

\* The answer lists a later utterance before an earlier one.
InvertedOutcome ==
  Responds(<<JObject([transcript |->
     JList(<<Utterance(6, 12, "B", <<"ok">>),
             Utterance(0, 6, "A", <<"hello">>)>>)])>>)

\* The answer wrapped in a code block that opens with a bare fence.
PlainFenceOutcome ==
  Responds(<<Fence,
             JObject([transcript |->
               JList(<<Utterance(0, 12, "A", <<"hello">>)>>)]),
             Fence>>)

\* Entries without type and speaker, and with a field of their own.
SparseOutcome ==
  Responds(<<JObject([transcript |->
     JList(<<Dict([start_time |-> Clock(0), end_time |-> Clock(6),
                   spoken_text |-> <<"hello">>, confidence |-> "high"]),
             Dict([type |-> "event", start_time |-> Clock(6),
                   end_time |-> Clock(12)])>>)])>>)

EmptyTranscriptOutcome == Responds(<<JObject([transcript |-> JList(<<>>)])>>)
NonObjectItemOutcome ==
  Responds(<<JObject([transcript |-> JList(<<NonDictItem>>)])>>)
NullTranscriptOutcome == Responds(<<JObject([transcript |-> JNull])>>)
NoTranscriptFieldOutcome == Responds(<<JObject([status |-> JString])>>)
NullOutcome == Responds(<<JNull>>)
NotJsonOutcome == Responds(<<NotJson>>)

\* The call raises: with a message, and with an empty str(e).
RaisingOutcomes ==
  {ApiRaises("boom"), ApiRaises(""), GetsizeRaises("No such file")}

\* Answers that are not a transcript list of objects.
MalformedOutcomes ==
  {NotJsonOutcome, NullOutcome, NoTranscriptFieldOutcome,
   NullTranscriptOutcome, NonObjectItemOutcome}

FaultyOutcomes ==
  RaisingOutcomes \cup MalformedOutcomes
    \cup {BareArrayOutcome, TimeoutTextOutcome, LongClockOutcome,
          EmptyTranscriptOutcome, InvertedOutcome, PlainFenceOutcome,
          SparseOutcome}

Outcomes == {NominalOutcome} \cup FaultyOutcomes

(***************************************************************************)
(* State.                                                                  *)
(*   ck_*  one call of the time-based branch of VideoChunker.create_chunks *)
(*   ts_*  one call of parse_timestamp                                     *)
(*   en_*  one call of TranscriptAnalyzer._process_transcript_entry        *)
(*   run_* one call of TranscriptionPipeline.process_video on a fresh      *)
(*         cache: the configuration, the chunks, the futures of the        *)
(*         thread pool, whether some call completed before a call          *)
(*         submitted earlier, the results gathered by the collector, and   *)
(*         the artifacts written                                           *)
(*   cache_* the global transcript cache across successive runs: the cache *)
(*         files, the full transcript files that exist, the number of runs *)
(*         made, the dispatcher invocations per cache key, and how the     *)
(*         last run ended                                                  *)
(***************************************************************************)
VARIABLES ck_duration, ck_chunk_duration, ck_chunk_size_mb, ck_file,
          ck_chunks, ck_done,
          ts_origin, ts_input, ts_result, ts_done,
          en_entry, en_chunk_start, en_out, en_done,
          run_pc, run_config, run_chunks, run_futures, run_out_of_order,
          run_all_transcripts, run_timeline, run_report,
          cache_files, cache_artifacts, cache_runs, cache_dispatches,
          cache_last,
          va_transcript, va_results, va_done,
          up_chunks, up_cleanup, up_next, up_pc, up_file, up_elapsed,
          up_polls, up_results, up_remote, up_cache, up_cleaned,
          inst_calls, inst_videos, inst_chunks, inst_transcripts, inst_cache,
          inst_last,
          batch_videos, batch_next, batch_pc, batch_results,
          batch_notifications,
          pj_chunk_start, pj_entry, pj_processed, pj_full, pj_clean, pj_done

chunkVars == <<ck_duration, ck_chunk_duration, ck_chunk_size_mb, ck_file,
              ck_chunks, ck_done>>
parseVars == <<ts_origin, ts_input, ts_result, ts_done>>
entryVars == <<en_entry, en_chunk_start, en_out, en_done>>
runVars == <<run_pc, run_config, run_chunks, run_futures, run_out_of_order,
             run_all_transcripts, run_timeline, run_report>>
cacheVars == <<cache_files, cache_artifacts, cache_runs, cache_dispatches,
               cache_last>>
validateVars == <<va_transcript, va_results, va_done>>
uploadVars == <<up_chunks, up_cleanup, up_next, up_pc, up_file, up_elapsed,
                up_polls, up_results, up_remote, up_cache, up_cleaned>>
instVars == <<inst_calls, inst_videos, inst_chunks, inst_transcripts,
              inst_cache, inst_last>>
batchVars == <<batch_videos, batch_next, batch_pc, batch_results,
               batch_notifications>>
projVars == <<pj_chunk_start, pj_entry, pj_processed, pj_full, pj_clean,
              pj_done>>

NoFile == [original_size |-> 1, samples |-> <<>>]

ChunkIdle ==
  /\ ck_duration = 0
  /\ ck_chunk_duration = 1
  /\ ck_chunk_size_mb = NoChunkSize
  /\ ck_file = NoFile
  /\ ck_chunks = <<>>
  /\ ck_done = FALSE

RawOrigin == [kind |-> "raw", parts |-> 0, h |-> 0, m |-> 0, s |-> 0,
              f |-> 0, frac |-> FALSE]

ParseIdle ==
  /\ ts_origin = RawOrigin
  /\ ts_input = NoneValue
  /\ ts_result = [threw |-> FALSE, val |-> 0]
  /\ ts_done = FALSE

EntryIdle ==
  /\ en_entry = NonDictItem
  /\ en_chunk_start = 0
  /\ en_out = NonDictItem
  /\ en_done = FALSE

IdleConfig == [duration |-> 0, chunk_duration |-> 1, max_workers |-> 1,
               video_valid |-> FALSE]

\* No artifact yet: written tells whether the file exists.
NoTimeline == [written |-> FALSE, total_entries |-> 0,
               total_duration_seconds |-> 0, transcript |-> <<>>]
NoReport == [written |-> FALSE, issues |-> <<>>, validation_passed |-> FALSE,
             failed_chunks |-> <<>>]

RunIdle ==
  /\ run_pc = "idle"
  /\ run_config = IdleConfig
  /\ run_chunks = <<>>
  /\ run_futures = <<>>
  /\ run_out_of_order = FALSE
  /\ run_all_transcripts = <<>>
  /\ run_timeline = NoTimeline
  /\ run_report = NoReport

NoConfiguration ==
  [video_input |-> <<>>, chunk_duration |-> 0, chunk_size_mb |-> NoChunkSize,
   max_workers |-> 0, model |-> <<>>, pipeline_version |-> <<>>,
   force_reprocess |-> FALSE]

NoCachedData ==
  [key |-> <<>>, transcript_path |-> <<>>, configuration |-> NoConfiguration,
   readable |-> FALSE]

NoRun == [ended |-> "none", dispatched |-> FALSE, forced |-> FALSE,
          key |-> <<>>, config |-> NoConfiguration, found |-> "none",
          served |-> NoConfiguration]

NoTranscript == [duration_seconds |-> 0, total_entries |-> 0,
                 transcript |-> <<>>]

NoResults == [issues |-> <<>>]

ValidateIdle ==
  /\ va_transcript = NoTranscript
  /\ va_results = NoResults
  /\ va_done = FALSE

NoUpload == [file_id |-> 0, state |-> "NONE"]

UploadIdle ==
  /\ up_chunks = <<>>
  /\ up_cleanup = FALSE
  /\ up_next = 0
  /\ up_pc = "idle"
  /\ up_file = NoUpload
  /\ up_elapsed = 0
  /\ up_polls = 0
  /\ up_results = <<>>
  /\ up_remote = {}
  /\ up_cache = <<>>
  /\ up_cleaned = FALSE

NoCall == [op |-> "none"]

InstanceIdle ==
  /\ inst_calls = 0
  /\ inst_videos = <<>>
  /\ inst_chunks = <<>>
  /\ inst_transcripts = <<>>
  /\ inst_cache = {}
  /\ inst_last = NoCall

BatchIdle ==
  /\ batch_videos = <<>>
  /\ batch_next = 1
  /\ batch_pc = "idle"
  /\ batch_results = <<>>
  /\ batch_notifications = <<>>

ProjectIdle ==
  /\ pj_chunk_start = 0
  /\ pj_entry = <<>>
  /\ pj_processed = <<>>
  /\ pj_full = <<>>
  /\ pj_clean = <<>>
  /\ pj_done = FALSE

CacheIdle ==
  /\ cache_files = {}
  /\ cache_artifacts = {}
  /\ cache_runs = 0
  /\ cache_dispatches = <<>>
  /\ cache_last = NoRun

(***************************************************************************)
(* SpecChunk: the interval computation of create_chunks on bounded inputs, *)
(* time-based and size-based.  TranscriptionConfig._validate admits        *)
(* 0 < chunk_duration <= 3600 and 0 < chunk_size_mb <= 1000.               *)
(***************************************************************************)
ChunkInputs ==
  ({500 * k : k \in 0..MaxDurationHalves} \X (1..MaxChunkDuration))
    \cup {<<630000, 300>>, <<600500, 300>>, <<10030, 5>>}

\* A temporary sample chunk: ffmpeg failed, or wrote a small or a large file.
SampleChoices ==
  {[ok |-> FALSE, size |-> 0], [ok |-> TRUE, size |-> 1],
   [ok |-> TRUE, size |-> 2048]}

\* Video files of 0.5, 3 and 10 MB with every choice for the three samples.
SizedFiles ==
  { [original_size |-> z, samples |-> <<a, b, c>>] :
      z \in {512, 3072, 10240},
      a \in SampleChoices, b \in SampleChoices, c \in SampleChoices }

\* Positive durations in half seconds and target sizes of 1, 2 and 5 MB.
SizeInputs ==
  {500 * k : k \in 1..MaxDurationHalves} \X {1, 2, 5} \X SizedFiles

InitChunk ==
  /\ \/ \E inp \in ChunkInputs :
          /\ ck_duration = inp[1]
          /\ ck_chunk_duration = inp[2]
          /\ ck_chunk_size_mb = NoChunkSize
          /\ ck_file = NoFile
     \/ \E inp \in SizeInputs :
          /\ ck_duration = inp[1]
          /\ ck_chunk_duration = 300
          /\ ck_chunk_size_mb = ChunkSize(inp[2])
          /\ ck_file = inp[3]
  /\ ck_chunks = <<>>
  /\ ck_done = FALSE
  /\ ParseIdle
  /\ EntryIdle
  /\ RunIdle
  /\ CacheIdle
  /\ ValidateIdle
  /\ UploadIdle
  /\ InstanceIdle
  /\ BatchIdle
  /\ ProjectIdle

CreateChunks ==
  /\ ~ck_done
  /\ ck_chunks' = chunk_boundaries(ck_duration, ck_chunk_duration,
                                   ck_chunk_size_mb, ck_file)
  /\ ck_done' = TRUE
  /\ UNCHANGED <<ck_duration, ck_chunk_duration, ck_chunk_size_mb, ck_file,
                 parseVars, entryVars, validateVars, uploadVars, instVars, batchVars, projVars, runVars, cacheVars>>

(***************************************************************************)
(* SpecParse: parse_timestamp and _process_transcript_entry on bounded     *)
(* inputs.  A timestamp is either rendered from numeric fields (so that    *)
(* the value it denotes is known independently of the parser) or joined    *)
(* from arbitrary fragments, or is not a string at all.                    *)
(***************************************************************************)
Pad2(n) == Pad(NatText(n), 2)

RenderFields(o) ==
  LET sec == Pad2(o.s) \o (IF o.frac THEN <<".">> \o Pad(NatText(o.f), 3)
                           ELSE <<>>)
  IN IF o.parts = 2 THEN Pad2(o.m) \o <<":">> \o sec
     ELSE Pad2(o.h) \o <<":">> \o Pad2(o.m) \o <<":">> \o sec

FieldOrigins ==
  { [kind |-> "fields", parts |-> p, h |-> h, m |-> m, s |-> s, f |-> f,
     frac |-> fr] :
      p \in {2, 3}, h \in {0, 1, 12}, m \in {0, 1, 59, 60, 75},
      s \in {0, 5, 10, 59, 60, 61}, f \in {0, 500, 999}, fr \in BOOLEAN }

WellScoped(o) == (o.parts = 2 => o.h = 0) /\ (~o.frac => o.f = 0)

RawFragments == { <<>>, <<"x">>, <<"5">>, <<"-", "5">>, <<"5", ".", "5">>,
                  <<"1", "0", "0">> }

RawTexts ==
  RawFragments
    \cup { a \o <<":">> \o b : a \in RawFragments, b \in RawFragments }
    \cup { a \o <<":">> \o b \o <<":">> \o c :
             a \in RawFragments, b \in RawFragments, c \in RawFragments }

InitParseCase ==
  /\ \/ \E o \in FieldOrigins :
          /\ WellScoped(o)
          /\ ts_origin = o
          /\ ts_input = Str(RenderFields(o))
     \/ \E t \in RawTexts :
          /\ ts_origin = RawOrigin
          /\ ts_input = Str(t)
     \/ /\ ts_origin = RawOrigin
        /\ ts_input = NoneValue
  /\ ts_result = [threw |-> FALSE, val |-> 0]
  /\ ts_done = FALSE
  /\ EntryIdle

T0000 == Str(<<"0", "0", ":", "0", "0">>)
T0005 == Str(<<"0", "0", ":", "0", "5">>)
T0010 == Str(<<"0", "0", ":", "1", "0">>)
T0061 == Str(<<"0", "0", ":", "6", "1">>)
T0100 == Str(<<"0", "1", ":", "0", "0">>)
TNeg == Str(<<"-", "1", ":", "0", "0">>)
TBad == Str(<<"x">>)

EntryTimestamps == {T0005, T0010, T0061, T0100, TNeg, TBad, NoneValue}

\* Marks a key that the generated dict leaves out.
Absent == [isStr |-> FALSE, chars |-> <<"absent">>]

\* The dict with the given optional keys.
RawEntry(type, start, end, time) ==
  LET d0 == [spoken_text |-> <<"hello">>]
      d1 == IF type = "absent" THEN d0 ELSE Put(d0, "type", type)
      d2 == IF start = Absent THEN d1 ELSE Put(d1, "start_time", start)
      d3 == IF end = Absent THEN d2 ELSE Put(d2, "end_time", end)
      d4 == IF time = Absent THEN d3 ELSE Put(d3, "time", time)
  IN Dict(d4)

\* A dict without spoken_text, with the given optional keys.
SparseEntry(type, start, end, speaker) ==
  LET d0 == [visual_description |-> <<"slide">>]
      d1 == IF type = "absent" THEN d0 ELSE Put(d0, "type", type)
      d2 == IF start = Absent THEN d1 ELSE Put(d1, "start_time", start)
      d3 == IF end = Absent THEN d2 ELSE Put(d2, "end_time", end)
      d4 == IF speaker = "absent" THEN d3 ELSE Put(d3, "speaker", speaker)
  IN Dict(d4)

SparseEntries ==
  { SparseEntry(ty, st, st, sp) :
      ty \in {"absent", "utterance", "event"},
      st \in {T0005, TBad, Absent},
      sp \in {"absent", "alice"} }

RawEntries ==
  { RawEntry(ty, st, et, tm) :
      ty \in {"absent", "utterance", "event", "note"},
      st \in EntryTimestamps \cup {Absent},
      et \in EntryTimestamps \cup {Absent},
      tm \in {Absent, T0005, TBad} }
    \cup SparseEntries
    \cup {NonDictItem}

InitEntryCase ==
  /\ en_entry \in RawEntries
  /\ en_chunk_start \in {0, 5000}
  /\ en_out = NonDictItem
  /\ en_done = FALSE
  /\ ParseIdle

InitParse ==
  /\ ChunkIdle
  /\ RunIdle
  /\ CacheIdle
  /\ ValidateIdle
  /\ UploadIdle
  /\ InstanceIdle
  /\ BatchIdle
  /\ ProjectIdle
  /\ (InitParseCase \/ InitEntryCase)

ParseTimestamp ==
  /\ ~ts_done
  /\ ts_result' = parse_timestamp(ts_input)
  /\ ts_done' = TRUE
  /\ UNCHANGED <<ts_origin, ts_input, chunkVars, entryVars, validateVars, uploadVars, instVars, batchVars, projVars, runVars,
               cacheVars>>

ProcessEntry ==
  /\ ~en_done
  /\ en_out' = process_transcript_entry(en_entry, en_chunk_start)
  /\ en_done' = TRUE
  /\ UNCHANGED <<en_entry, en_chunk_start, chunkVars, parseVars, validateVars, uploadVars, instVars, batchVars, projVars, runVars,
               cacheVars>>

vars == <<chunkVars, parseVars, entryVars, runVars, cacheVars, validateVars,
         uploadVars, instVars, batchVars, projVars>>

NextChunk == CreateChunks
SpecChunk == InitChunk /\ [][NextChunk]_vars

NextParse == ParseTimestamp \/ ProcessEntry
SpecParse == InitParse /\ [][NextParse]_vars

(***************************************************************************)
(* Spec: one run of process_video on a fresh cache.  The worker threads    *)
(* of ThreadPoolExecutor(max_workers) take the submitted calls in          *)
(* submission order and finish in any order; the collector thread reads    *)
(* future.result() in the order of the futures list.                       *)
(***************************************************************************)
MaxWorkers == 2
MaxFaulty == 1

\* Worker counts: the admitted ones up to MaxWorkers, and one on each side
\* of the admitted range.
RunConfigs ==
  { [duration |-> d, chunk_duration |-> 12, max_workers |-> w,
     video_valid |-> v] :
      d \in {24000, 60000}, w \in (1..MaxWorkers) \cup {0, 17},
      v \in BOOLEAN }

InitRun ==
  /\ ChunkIdle
  /\ ParseIdle
  /\ EntryIdle
  /\ CacheIdle
  /\ ValidateIdle
  /\ UploadIdle
  /\ InstanceIdle
  /\ BatchIdle
  /\ ProjectIdle
  /\ run_pc = "start"
  /\ run_config \in RunConfigs
  /\ run_chunks = <<>>
  /\ run_futures = <<>>
  /\ run_out_of_order = FALSE
  /\ run_all_transcripts = <<>>
  /\ run_timeline = NoTimeline
  /\ run_report = NoReport

NoOutcome == [kind |-> "none", msg |-> "", text |-> <<>>]
Queued == [state |-> "queued", outcome |-> NoOutcome, done |-> Returned(<<>>)]

InState(state) == {i \in 1..Len(run_futures) : run_futures[i].state = state}

\* validate_video_file fails: raise ValueError.
RejectInput ==
  /\ run_pc = "start"
  /\ max_workers_refused(run_config.max_workers) \/ ~run_config.video_valid
  /\ run_pc' = "input_error"
  /\ UNCHANGED <<run_config, run_chunks, run_futures, run_out_of_order,
                 run_all_transcripts, run_timeline, run_report>>
  /\ UNCHANGED <<chunkVars, parseVars, entryVars, validateVars, uploadVars, instVars, batchVars, projVars, cacheVars>>

\* Steps 2 to 4 up to executor.submit for every chunk.
SubmitChunks ==
  /\ run_pc = "start"
  /\ ~max_workers_refused(run_config.max_workers)
  /\ run_config.video_valid
  /\ run_chunks' = time_based_boundaries(run_config.duration,
                                         run_config.chunk_duration)
  /\ run_futures' = [i \in 1..Len(run_chunks') |-> Queued]
  /\ run_pc' = "dispatching"
  /\ UNCHANGED <<run_config, run_out_of_order, run_all_transcripts,
                 run_timeline, run_report>>
  /\ UNCHANGED <<chunkVars, parseVars, entryVars, validateVars, uploadVars, instVars, batchVars, projVars, cacheVars>>

\* A pool that starts a thread for every submitted call.
adjust_thread_count_unbounded(num_threads, max_workers) == TRUE

\* ThreadPoolExecutor(max_workers=max_workers): a call is taken up while
\* fewer than max_workers threads are busy.
adjust_thread_count(num_threads, max_workers) == num_threads < max_workers

\* An idle worker takes the oldest queued call.
WorkerStart ==
  /\ run_pc = "dispatching"
  /\ adjust_thread_count(Cardinality(InState("running")),
                         run_config.max_workers)
  /\ \E i \in InState("queued") :
       /\ \A j \in InState("queued") : i <= j
       /\ run_futures' = [run_futures EXCEPT ![i].state = "running"]
  /\ UNCHANGED <<run_pc, run_config, run_chunks, run_out_of_order,
                 run_all_transcripts, run_timeline, run_report>>
  /\ UNCHANGED <<chunkVars, parseVars, entryVars, validateVars, uploadVars, instVars, batchVars, projVars, cacheVars>>

FaultyCalls ==
  {i \in InState("done") : run_futures[i].outcome # NominalOutcome}

\* analyze_chunk_transcript ends for one running call.
WorkerFinish ==
  /\ run_pc = "dispatching"
  /\ \E i \in InState("running") : \E outcome \in Outcomes :
       /\ outcome # NominalOutcome => Cardinality(FaultyCalls) < MaxFaulty
       /\ run_futures' =
            [run_futures EXCEPT
               ![i] = [state |-> "done", outcome |-> outcome,
                       done |-> analyze_chunk_transcript(run_chunks[i], outcome)]]
       /\ run_out_of_order' =
            (run_out_of_order \/ \E j \in InState("running") : j < i)
  /\ UNCHANGED <<run_pc, run_config, run_chunks, run_all_transcripts,
                 run_timeline, run_report>>
  /\ UNCHANGED <<chunkVars, parseVars, entryVars, validateVars, uploadVars, instVars, batchVars, projVars, cacheVars>>

\* for chunk_info, future in futures: the order of submission.
collection_order(n) == [i \in 1..n |-> i]

\* One iteration of the collector loop: future.result() returns or raises.
Collect ==
  /\ run_pc = "dispatching"
  /\ LET order == collection_order(Len(run_futures))
         k == Len(run_all_transcripts) + 1
     IN /\ k <= Len(order)
        /\ run_futures[order[k]].state = "done"
        /\ run_all_transcripts' =
             Append(run_all_transcripts,
                    [chunk_info |-> run_chunks[order[k]],
                     transcript |-> collect_result(run_futures[order[k]].done)])
  /\ UNCHANGED <<run_pc, run_config, run_chunks, run_futures, run_out_of_order,
                 run_timeline, run_report>>
  /\ UNCHANGED <<chunkVars, parseVars, entryVars, validateVars, uploadVars, instVars, batchVars, projVars, cacheVars>>

\* The validation report as it is saved at step 8.
written_report(results) ==
  [written |-> TRUE, issues |-> results.issues,
   validation_passed |-> results.validation_passed,
   failed_chunks |-> results.failed_chunks]

\* Steps 5 to 6.5: combine, format, validate.  An exception raised by the
\* combiner or the validator leaves process_video.
FinishRun ==
  /\ run_pc = "dispatching"
  /\ Len(run_all_transcripts) = Len(run_futures)
  /\ IF combiner_raises(run_all_transcripts) THEN
       /\ run_pc' = "crashed"
       /\ UNCHANGED <<run_timeline, run_report>>
     ELSE
       \E full_transcript \in {create_full_transcript(run_all_transcripts)} :
       \E clean_transcript \in {create_clean_transcript(full_transcript)} :
         /\ run_timeline' = [written |-> TRUE] @@ full_transcript
         /\ IF parse_transcript_entries_raises(clean_transcript.transcript)
            THEN /\ run_pc' = "crashed"
                 /\ UNCHANGED run_report
            ELSE /\ run_pc' = "done"
                 /\ run_report' =
                      written_report(validate_run(run_all_transcripts,
                                                  clean_transcript))
  /\ UNCHANGED <<run_config, run_chunks, run_futures, run_out_of_order,
                 run_all_transcripts>>
  /\ UNCHANGED <<chunkVars, parseVars, entryVars, validateVars, uploadVars, instVars, batchVars, projVars, cacheVars>>

Next ==
  \/ RejectInput
  \/ SubmitChunks
  \/ WorkerStart
  \/ WorkerFinish
  \/ Collect
  \/ FinishRun

Spec == InitRun /\ [][Next]_vars

(***************************************************************************)
(* storage/cache_manager.py and the cache steps of process_video.  The     *)
(* global cache directory is a set of files [key, transcript_path], at     *)
(* most one per key; key stands for the file name                          *)
(* f"{video_id}_{config_hash}.json".                                       *)
(***************************************************************************)
\* chunk_size_str = f"_{self.chunk_size_mb}" if self.chunk_size_mb is not
\* None else ""
chunk_size_str(chunk_size_mb) ==
  IF chunk_size_mb.set THEN <<"_">> \o NatText(chunk_size_mb.mb) ELSE <<>>

\* The hashed text without its max_workers field.
config_string_without_workers(config) ==
  config.video_input \o <<"_">> \o NatText(config.chunk_duration)
    \o chunk_size_str(config.chunk_size_mb)
    \o <<"_">> \o config.model \o <<"_">> \o config.pipeline_version

\* models.py, get_config_hash: the hashed text, f"{video_input}_
\* {chunk_duration}{chunk_size_str}_{max_workers}_{model.value}_
\* {pipeline_version}".  A path and a model value are one symbol each.
config_string(config) ==
  config.video_input \o <<"_">> \o NatText(config.chunk_duration)
    \o chunk_size_str(config.chunk_size_mb)
    \o <<"_">> \o NatText(config.max_workers)
    \o <<"_">> \o config.model \o <<"_">> \o config.pipeline_version

\* hashlib.sha256(config_string.encode()).hexdigest()[:16]: a digest stands
\* for the text it was taken from.
get_config_hash(config) == config_string(config)

cache_key(video_id, config) == <<video_id, get_config_hash(config)>>

\* What json.load and transcript_path.exists() meet for a key: no cache
\* file, one that is not JSON, one whose transcript is gone, or a good one.
entry_state(files, artifacts, key) ==
  IF \A f \in files : f.key # key THEN "none"
  ELSE IF \E f \in files : f.key = key /\ ~f.readable THEN "unreadable"
  ELSE IF \E f \in files : f.key = key /\ f.transcript_path \notin artifacts
  THEN "stale"
  ELSE "valid"

\* A check that trusts the cache file without looking for the transcript.
check_existing_transcript_unverified(files, artifacts, key) ==
  IF \E f \in files : f.key = key /\ f.readable
  THEN [hit |-> TRUE, files |-> files,
        cached_data |-> CHOOSE f \in files : f.key = key]
  ELSE [hit |-> FALSE, files |-> {f \in files : f.key # key},
        cached_data |-> NoCachedData]

\* check_existing_transcript: [hit, files, cached_data]; a cache file that
\* cannot be read, or whose transcript is gone, is unlinked.
check_existing_transcript(files, artifacts, key) ==
  IF \E f \in files :
       f.key = key /\ f.readable /\ f.transcript_path \in artifacts
  THEN [hit |-> TRUE, files |-> files,
        cached_data |-> CHOOSE f \in files : f.key = key]
  ELSE [hit |-> FALSE, files |-> {f \in files : f.key # key},
        cached_data |-> NoCachedData]

\* save_transcript_cache: open(cache_file, 'w') replaces the file.
save_transcript_cache(files, key, transcript_path, config) ==
  {f \in files : f.key # key}
    \cup {[key |-> key, transcript_path |-> transcript_path,
           configuration |-> config, readable |-> TRUE]}

(***************************************************************************)
(* SpecCache: successive runs of process_video, each by a new pipeline     *)
(* object (a new run directory), over one global cache.  Each run is one   *)
(* step; the answers of the service are chosen per chunk.                  *)
(***************************************************************************)
MaxRuns == 2
MaxDamaged == 1

LectureFile ==
  [original_size |-> 15360,
   samples |-> <<[ok |-> TRUE, size |-> 5120], [ok |-> TRUE, size |-> 5120],
                 [ok |-> TRUE, size |-> 5120]>>]

TalkFile ==
  [original_size |-> 7680, samples |-> <<[ok |-> TRUE, size |-> 7680]>>]

CacheVideos ==
  { [video_id |-> "lecture", duration |-> 24000, video_valid |-> TRUE,
     file |-> LectureFile],
    [video_id |-> "talk", duration |-> 12000, video_valid |-> TRUE,
     file |-> TalkFile],
    [video_id |-> "missing", duration |-> 0, video_valid |-> FALSE,
     file |-> TalkFile] }

BaseSettings ==
  [chunk_duration |-> 12, chunk_size_mb |-> NoChunkSize, max_workers |-> 4,
   model |-> <<"gemini-2.5-pro">>]

\* Settings that _validate refuses: one field of the base settings is out
\* of range.
InvalidSettings ==
  {[BaseSettings EXCEPT !.chunk_duration = 0],
   [BaseSettings EXCEPT !.chunk_duration = 3601],
   [BaseSettings EXCEPT !.chunk_size_mb = ChunkSize(0)],
   [BaseSettings EXCEPT !.chunk_size_mb = ChunkSize(1001)],
   [BaseSettings EXCEPT !.max_workers = 0],
   [BaseSettings EXCEPT !.max_workers = 17],
   [BaseSettings EXCEPT !.model = <<"gemini">>]}

\* The base settings and, for one video, the settings that differ from them
\* in one field.
CacheSettings(video_id) ==
  IF video_id = "lecture"
  THEN {BaseSettings,
        [BaseSettings EXCEPT !.chunk_duration = 24],
        [BaseSettings EXCEPT !.max_workers = 2],
        [BaseSettings EXCEPT !.model = <<"gemini-1.5-pro">>],
        [BaseSettings EXCEPT !.chunk_size_mb = ChunkSize(5)]}
         \cup InvalidSettings
  ELSE {BaseSettings}

\* force_reprocess is tried with the base settings of a valid video.
ForceChoices(video, settings) ==
  IF settings = BaseSettings /\ video.video_valid THEN BOOLEAN ELSE {FALSE}

CacheRequests ==
  UNION { UNION { { [video |-> v, settings |-> s, force_reprocess |-> f] :
                      f \in ForceChoices(v, s) } :
                  s \in CacheSettings(v.video_id) } :
          v \in CacheVideos }

config_of(request) ==
  [video_input |-> <<request.video.video_id>>,
   chunk_duration |-> request.settings.chunk_duration,
   chunk_size_mb |-> request.settings.chunk_size_mb,
   max_workers |-> request.settings.max_workers,
   model |-> request.settings.model,
   pipeline_version |-> <<"1", ".", "0">>,
   force_reprocess |-> request.force_reprocess]

CacheKeys ==
  {cache_key(r.video.video_id, config_of(r)) : r \in CacheRequests}

CacheOutcomes == {NominalOutcome, ApiRaises("boom"), NonObjectItemOutcome}

InitCache ==
  /\ ChunkIdle
  /\ ParseIdle
  /\ EntryIdle
  /\ RunIdle
  /\ ValidateIdle
  /\ UploadIdle
  /\ InstanceIdle
  /\ BatchIdle
  /\ ProjectIdle
  /\ cache_files = {}
  /\ cache_artifacts = {}
  /\ cache_runs = 0
  /\ cache_dispatches = [key \in CacheKeys |-> [unforced |-> 0, forced |-> 0]]
  /\ cache_last = NoRun

\* analyze_all_chunks_parallel as a whole: one gathered result per chunk.
analyze_all_chunks(chunks, outcomes) ==
  [i \in 1..Len(chunks) |->
     [chunk_info |-> chunks[i],
      transcript |->
        collect_result(analyze_chunk_transcript(chunks[i], outcomes[i]))]]

Ended(ended, dispatched, config, key, found, served) ==
  [ended |-> ended, dispatched |-> dispatched,
   forced |-> config.force_reprocess, key |-> key, config |-> config,
   found |-> found, served |-> served]

CountDispatch(dispatches, key, forced) ==
  [dispatches EXCEPT ![key] =
     IF forced THEN [@ EXCEPT !.forced = @ + 1]
     ELSE [@ EXCEPT !.unforced = @ + 1]]

\* process_video from the cache check on, for a valid video.
ProcessValidVideo(video, config, key, found, checked, transcript_path) ==
  IF checked.hit THEN
    /\ cache_last' = Ended("cached", FALSE, config, key, found,
                           checked.cached_data.configuration)
    /\ UNCHANGED <<cache_files, cache_artifacts, cache_dispatches>>
  ELSE
    \E chunks \in {chunk_boundaries(video.duration, config.chunk_duration,
                                    config.chunk_size_mb, video.file)} :
    \E outcomes \in [1..Len(chunks) -> CacheOutcomes] :
    \E transcript_analysis \in {analyze_all_chunks(chunks, outcomes)} :
      /\ cache_dispatches' =
           CountDispatch(cache_dispatches, key, config.force_reprocess)
      /\ IF combiner_raises(transcript_analysis) THEN
           /\ cache_last' = Ended("crashed", TRUE, config, key, found,
                                  NoConfiguration)
           /\ cache_files' = checked.files
           /\ UNCHANGED cache_artifacts
         ELSE IF parse_transcript_entries_raises(
                   create_clean_transcript(
                     create_full_transcript(transcript_analysis))
                     .transcript) THEN
           /\ cache_last' = Ended("crashed", TRUE, config, key, found,
                                  NoConfiguration)
           /\ cache_files' = checked.files
           /\ cache_artifacts' = cache_artifacts \cup {transcript_path}
         ELSE
           /\ cache_last' = Ended("done", TRUE, config, key, found,
                                  NoConfiguration)
           /\ cache_files' =
                save_transcript_cache(checked.files, key, transcript_path,
                                      config)
           /\ cache_artifacts' = cache_artifacts \cup {transcript_path}

\* The cache check of process_video, skipped under force_reprocess.
cache_check(config, key) ==
  IF config.force_reprocess
  THEN [hit |-> FALSE, files |-> cache_files, cached_data |-> NoCachedData]
  ELSE check_existing_transcript(cache_files, cache_artifacts, key)

ProcessVideo ==
  /\ cache_runs < MaxRuns
  /\ cache_runs' = cache_runs + 1
  /\ \E request \in CacheRequests :
     \E config \in {config_of(request)} :
     \E key \in {cache_key(request.video.video_id, config)} :
       IF validate_raises(config) \/ ~request.video.video_valid THEN
         /\ cache_last' = Ended("input_error", FALSE, config, key, "none",
                                NoConfiguration)
         /\ UNCHANGED <<cache_files, cache_artifacts, cache_dispatches>>
       ELSE
         ProcessValidVideo(request.video, config, key,
                           entry_state(cache_files, cache_artifacts, key),
                           cache_check(config, key),
                           <<cache_runs + 1, request.video.video_id>>)
  /\ UNCHANGED <<chunkVars, parseVars, entryVars, validateVars, uploadVars, instVars, batchVars, projVars, runVars>>

\* The cache files that a check would unlink.
DamagedFiles ==
  {f \in cache_files : ~f.readable \/ f.transcript_path \notin cache_artifacts}

\* The transcript file of a cache entry is removed from the output directory.
RemoveTranscript ==
  /\ cache_runs < MaxRuns
  /\ Cardinality(DamagedFiles) < MaxDamaged
  /\ \E f \in cache_files :
       /\ f.transcript_path \in cache_artifacts
       /\ cache_artifacts' = cache_artifacts \ {f.transcript_path}
  /\ UNCHANGED <<cache_files, cache_runs, cache_dispatches, cache_last>>
  /\ UNCHANGED <<chunkVars, parseVars, entryVars, validateVars, uploadVars, instVars, batchVars, projVars, runVars>>

\* A cache file is overwritten with text that is not JSON.
DamageCacheFile ==
  /\ cache_runs < MaxRuns
  /\ Cardinality(DamagedFiles) < MaxDamaged
  /\ \E f \in cache_files :
       cache_files' = (cache_files \ {f}) \cup {[f EXCEPT !.readable = FALSE]}
  /\ UNCHANGED <<cache_artifacts, cache_runs, cache_dispatches, cache_last>>
  /\ UNCHANGED <<chunkVars, parseVars, entryVars, validateVars, uploadVars, instVars, batchVars, projVars, runVars>>

NextCache == ProcessVideo
SpecCache == InitCache /\ [][NextCache]_vars

\* SpecCacheFaults: the runs of SpecCache over a cache directory and an
\* output directory that are touched from outside between the runs.
NextCacheFaults ==
  \/ ProcessVideo
  \/ RemoveTranscript
  \/ DamageCacheFile

SpecCacheFaults == InitCache /\ [][NextCacheFaults]_vars

(***************************************************************************)
(* Claims on the cache (SpecCache).                                        *)
(***************************************************************************)
\* C4: for every cache key (video identity, fingerprint), the runs that did
\* not force recomputation have invoked the dispatcher at most once in all.
C4_DispatcherAtMostOnce ==
  \A key \in DOMAIN cache_dispatches : cache_dispatches[key].unforced <= 1

(***************************************************************************)
(* Claims on the time-based chunker (SpecChunk).                           *)
(***************************************************************************)
\* chunks tile [0, duration): first starts at 0, each starts where the
\* previous one ended, none is empty, the last one ends at duration.
ExactCover(chunks, duration) ==
  IF duration = 0 THEN chunks = <<>>
  ELSE /\ Len(chunks) >= 1
       /\ chunks[1].start_time = 0
       /\ \A k \in 1..Len(chunks) : chunks[k].start_time < chunks[k].end_time
       /\ \A k \in 1..(Len(chunks) - 1) :
            chunks[k].end_time = chunks[k + 1].start_time
       /\ chunks[Len(chunks)].end_time = duration

\* C5: for any chunk_duration > 0 and any total_duration the time-based
\* intervals exactly cover [0, total_duration) without gaps or overlaps and
\* the final interval ends at total_duration.
C5_TimeBasedExactCover ==
  ck_done /\ ~ck_chunk_size_mb.set => ExactCover(ck_chunks, ck_duration)

(***************************************************************************)
(* Claims on timestamp parsing and entry normalisation (SpecParse).        *)
(***************************************************************************)
\* The number of milliseconds the spec assigns to a rendered timestamp:
\* seconds >= 60 count as 59.999, minutes >= 60 of HH:MM:SS count as 59.
ClampedValue(o) ==
  LET sec == 1000 * o.s + o.f
      secs == IF sec >= 60000 THEN 59999 ELSE sec
  IN IF o.parts = 2 THEN 60000 * o.m + secs
     ELSE 3600000 * o.h + 60000 * (IF o.m >= 60 THEN 59 ELSE o.m) + secs

C6_EntryTimesOrdered ==
  (en_done /\ en_out.isDict) =>
    /\ en_out.fields["absolute_start_time"] >= 0
    /\ en_out.fields["absolute_end_time"]
         >= en_out.fields["absolute_start_time"]

(***************************************************************************)
(* Claims on one run (Spec).                                               *)
(***************************************************************************)
Segments == 1..Len(run_futures)
Finished(i) == run_futures[i].state = "done"

\* What the collector gathers for segment i once its call has finished.
ResultOf(i) == collect_result(run_futures[i].done)
EntriesOf(result) == Get(result, "transcript", JList(<<>>)).v

\* The gathered results, had they been gathered in segment order.
SegmentOrderResults ==
  [i \in Segments |-> [chunk_info |-> run_chunks[i], transcript |-> ResultOf(i)]]

IsErrorResult(result) == Has(result, "error") /\ EntriesOf(result) = <<>>

\* C1: during dispatch every submitted segment yields exactly one result,
\* gathered at the segment's own position; a segment whose call raised or
\* whose response was malformed yields an error result with zero entries;
\* and a segment that was answered well keeps its own entries whatever
\* happened to the other segments.
C1_FailureIsolation ==
  /\ Len(run_all_transcripts) <= Len(run_futures)
  /\ \A k \in 1..Len(run_all_transcripts) :
       /\ Finished(k)
       /\ run_all_transcripts[k] = SegmentOrderResults[k]
  /\ run_pc \in {"done", "crashed"} =>
       Len(run_all_transcripts) = Len(run_futures)
  /\ \A i \in Segments :
       Finished(i) /\ run_futures[i].outcome = NominalOutcome =>
         ResultOf(i) = analyze_chunk_transcript(run_chunks[i], NominalOutcome).result
  /\ \A i \in Segments :
       Finished(i)
         /\ run_futures[i].outcome \in RaisingOutcomes \cup MalformedOutcomes
       => IsErrorResult(ResultOf(i))

\* C2: a run that has ended has written both the timeline artifact and the
\* validation report, unless it ended with the input error, in which case it
\* has written nothing.
C2_RunAlwaysProducesOutput ==
  run_pc \in {"done", "crashed", "input_error"} =>
    IF run_pc = "input_error"
    THEN ~run_timeline.written /\ ~run_report.written
    ELSE run_timeline.written /\ run_report.written

\* The place of the k-th entry of L after a stable sort by absolute_time.
Rank(L, k) ==
  Cardinality({j \in 1..Len(L) : L[j].absolute_time < L[k].absolute_time})
    + Cardinality({j \in 1..k : L[j].absolute_time = L[k].absolute_time})

\* C3: whatever the order in which the calls completed, the merged timeline
\* is the list of the segments' entries, taken in (segment index, entry
\* index) order and stably sorted by absolute start: it is ascending, and
\* entries with equal absolute start keep their (segment, entry) order.
C3_MergeDeterministicAndStable ==
  run_timeline.written =>
    LET L == collect_entries(SegmentOrderResults)
        T == run_timeline.transcript
    IN /\ Len(T) = Len(L)
       /\ \A k \in 1..Len(L) : T[Rank(L, k)] = L[k]
       /\ \A k \in 1..(Len(T) - 1) :
            T[k].absolute_time <= T[k + 1].absolute_time

\* A run ended after a call completed before an earlier one, and an entry of
\* one segment starts exactly where the entries of the next segment start.
C3_Witness ==
  /\ run_pc = "done"
  /\ run_out_of_order
  /\ \E i \in Segments :
       /\ i + 1 \in Segments
       /\ run_futures[i].outcome = BareArrayOutcome
       /\ run_futures[i + 1].outcome = NominalOutcome

\* The issues of the report that name segment i (0-based in the report).
FailedSegmentIssues(i) ==
  {k \in 1..Len(run_report.issues) :
     /\ run_report.issues[k].issue_type = "failed_chunk"
     /\ run_report.issues[k].chunk_index = i - 1}

RaisedInDispatch(i) ==
  run_futures[i].outcome \in RaisingOutcomes \/ run_futures[i].done.raised

\* C8: in the report of a run, every segment whose call raised during
\* dispatch has exactly one failed-segment issue naming its index, every
\* segment that succeeded has none, and the timeline holds the entries of
\* the segments that succeeded.
C8_FailurePropagation ==
  run_report.written =>
    /\ \A i \in Segments :
         /\ RaisedInDispatch(i) => Cardinality(FailedSegmentIssues(i)) = 1
         /\ ~Has(ResultOf(i), "error") => FailedSegmentIssues(i) = {}
    /\ run_timeline.total_entries =
         Len(collect_entries(SelectSeq(SegmentOrderResults,
               LAMBDA r : ~Has(r.transcript, "error"))))

\* C9: in the report of a run, every segment whose result carries an error
\* or has zero entries has a failed-segment issue naming its index.
C9_ErrorOrEmptyIsFlagged ==
  run_report.written =>
    \A i \in Segments :
      Has(ResultOf(i), "error") \/ EntriesOf(ResultOf(i)) = <<>>
        => FailedSegmentIssues(i) # {}

HasErrorIssue(issues) == \E k \in 1..Len(issues) : issues[k].severity = "error"

\* C10: the report's passed flag is true exactly when the report has no
\* issue of error severity.
C10_PassedIffNoErrorIssue ==
  run_report.written =>
    (run_report.validation_passed <=> ~HasErrorIssue(run_report.issues))

\* A report with warnings only, which passed.
C10_Witness ==
  /\ run_report.written
  /\ run_report.issues # <<>>
  /\ ~HasErrorIssue(run_report.issues)
  /\ run_report.validation_passed

\* The absolute end times of the entries that the segments contributed.
AbsoluteEnds ==
  UNION { { EntriesOf(run_all_transcripts[c].transcript)[i]
              .fields["absolute_end_time"] :
              i \in 1..Len(EntriesOf(run_all_transcripts[c].transcript)) } :
          c \in 1..Len(run_all_transcripts) }

SetMax(S) == CHOOSE x \in S : \A y \in S : y <= x

\* C11: the total duration of the written timeline is the greatest absolute
\* end time over all its entries, and 0 when the timeline has no entry.
C11_TotalDurationIsMaxEnd ==
  run_timeline.written =>
    run_timeline.total_duration_seconds =
      (IF AbsoluteEnds = {} THEN 0 ELSE SetMax(AbsoluteEnds))

(***************************************************************************)
(* Claims on the fingerprint and the cache check (SpecCache).              *)
(***************************************************************************)
\* Two configurations agree on what the fingerprint is to tell apart.
SameSettings(a, b) ==
  /\ a.max_workers = b.max_workers
  /\ a.chunk_duration = b.chunk_duration
  /\ a.chunk_size_mb = b.chunk_size_mb
  /\ a.model = b.model

\* C12: a run is served from the cache only with a timeline that was stored
\* under the same worker count, chunk duration, chunk size and model: after
\* a change of any of them the cached timeline is not returned.
C12_ChangedConfigurationNotServed ==
  cache_last.ended = "cached" =>
    SameSettings(cache_last.served, cache_last.config)

\* A fresh dispatch finished while a readable cache file of the same video,
\* stored under other settings and with its transcript in place, exists.
C12_FreshRunBesideOldEntry ==
  /\ cache_last.ended = "done"
  /\ ~cache_last.forced
  /\ \E f \in cache_files :
       /\ f.key[1] = cache_last.key[1]
       /\ f.readable
       /\ f.transcript_path \in cache_artifacts
       /\ ~SameSettings(f.configuration, cache_last.config)

\* A cache file for the key exists, is JSON, and its transcript is in place.
EntryResolvable(files, artifacts, key) ==
  \E f \in files : f.key = key /\ f.readable /\ f.transcript_path \in artifacts

\* A run that reached the cache check: valid video, no force_reprocess.
CheckedRun ==
  /\ cache_runs' = cache_runs + 1
  /\ cache_last'.ended # "input_error"
  /\ ~cache_last'.forced

\* After a miss, a cache file of the key is the one this run has written.
NoOldEntryLeft ==
  \A f \in cache_files' :
    f.key = cache_last'.key => f.transcript_path[1] = cache_runs'

InvalidParameters(config) ==
  \/ config.chunk_duration \notin 1..3600
  \/ config.chunk_size_mb.set /\ config.chunk_size_mb.mb \notin 1..1000
  \/ config.max_workers \notin 1..16
  \/ config.model \notin ModelTypes

\* The media reference of a configuration cannot be read as a video.
InvalidMedia(config) ==
  \E v \in CacheVideos : config.video_input = <<v.video_id>> /\ ~v.video_valid

\* C14: a run ends with an input error exactly when its media reference or
\* its parameters are invalid, and such a run invokes no dispatch and
\* leaves the cache files and the transcripts as they were.
C14_InputErrorBeforeDispatch ==
  [][cache_runs' = cache_runs + 1 =>
       /\ (cache_last'.ended = "input_error")
            <=> (InvalidParameters(cache_last'.config)
                   \/ InvalidMedia(cache_last'.config))
       /\ cache_last'.ended = "input_error" =>
            /\ ~cache_last'.dispatched
            /\ UNCHANGED <<cache_files, cache_artifacts, cache_dispatches>>]_vars

\* A run with invalid chunk parameters was refused after an earlier run had
\* filled the cache.
C14_RefusedWithFilledCache ==
  /\ cache_last.ended = "input_error"
  /\ InvalidParameters(cache_last.config)
  /\ ~InvalidMedia(cache_last.config)
  /\ cache_files # {}

(***************************************************************************)
(* Claims on the worker pool (Spec).                                       *)
(***************************************************************************)
\* C15: the number of segment transcription calls in flight never exceeds
\* the configured worker count nor 16, and a run gets past its start only
\* with a worker count in 1..16.
C15_BoundedInFlight ==
  /\ Cardinality(InState("running")) <= Min(run_config.max_workers, 16)
  /\ run_pc \notin {"start", "input_error"} => run_config.max_workers \in 1..16

\* Every worker is busy while calls are still queued.
C15_PoolSaturated ==
  /\ run_pc = "dispatching"
  /\ Cardinality(InState("running")) = run_config.max_workers
  /\ InState("queued") # {}

(***************************************************************************)
(* Claims on the size-based chunker (SpecChunk).                           *)
(***************************************************************************)
RECURSIVE SumDurations(_)
SumDurations(chunks) ==
  IF chunks = <<>> THEN 0
  ELSE (Head(chunks).end_time - Head(chunks).start_time)
         + SumDurations(Tail(chunks))

\* C16: for a positive duration and a positive target size the size-based
\* walk ends with at least one interval, and the durations of its intervals
\* add up to the total duration.
C16_SizeBasedCoversDuration ==
  ck_done /\ ck_chunk_size_mb.set =>
    /\ Len(ck_chunks) >= 1
    /\ SumDurations(ck_chunks) = ck_duration

\* A size-based walk of several intervals whose last one was cut short.
C16_LastIntervalCut ==
  /\ ck_done
  /\ ck_chunk_size_mb.set
  /\ Len(ck_chunks) >= 3
  /\ ck_chunks[Len(ck_chunks)].end_time - ck_chunks[Len(ck_chunks)].start_time
       < ck_chunks[1].end_time - ck_chunks[1].start_time

(***************************************************************************)
(* Claims on the defaults of missing fields (SpecParse).                   *)
(***************************************************************************)
\* The entry of the timeline that the combiner makes of the processed entry.
TimelineEntry == full_entry(en_out, en_chunk_start)

\* The entry names no time at all.
NoTimestamp(f) ==
  ~Has(f, "start_time") /\ ~Has(f, "end_time") /\ ~Has(f, "time")

\* C17: an entry that lacks fields is kept, and in the timeline its type is
\* "utterance" when it had none, its speaker and its text are empty when it
\* had none, and its time is the start of the segment when it named no time.
C17_MissingFieldsDefaulted ==
  en_done /\ en_entry.isDict =>
    /\ en_out.isDict
    /\ TimelineEntry.type = Get(en_entry.fields, "type", "utterance")
    /\ TimelineEntry.speaker = Get(en_entry.fields, "speaker", "")
    /\ TimelineEntry.spoken_text = Get(en_entry.fields, "spoken_text", <<>>)
    /\ NoTimestamp(en_entry.fields) =>
         TimelineEntry.absolute_time = en_chunk_start

(***************************************************************************)
(* SpecValidate: validate_transcript_object on bounded transcripts.  The   *)
(* entries are in the order of their start times, as the combiner leaves   *)
(* them, with MM:SS timestamps as the formatter writes them.  The duration *)
(* is the greatest start time, as the combiner computes it, or 40 s.       *)
(***************************************************************************)
MaxEntries == 3

\* [start, end] in seconds.
ValidateIntervals ==
  {<<0, 5>>, <<0, 10>>, <<6, 19>>, <<8, 15>>, <<14, 25>>, <<20, 25>>}

ValidateEntry(type, interval) ==
  [type |-> type, start_time |-> Clock(interval[1]).chars,
   end_time |-> Clock(interval[2]).chars, speaker |-> "A",
   text |-> <<"hello">>, visual |-> <<>>]

ValidateEntries ==
  {ValidateEntry(t, i) : t \in {"utterance", "event"}, i \in ValidateIntervals}

StartOf(entry) == time_string_to_seconds(entry.start_time).val
EndOf(entry) == time_string_to_seconds(entry.end_time).val

SortedByStart(transcript) ==
  \A k \in 1..(Len(transcript) - 1) :
    StartOf(transcript[k]) <= StartOf(transcript[k + 1])

ValidateTranscripts ==
  UNION { {t \in [1..n -> ValidateEntries] : SortedByStart(t)} :
          n \in 1..MaxEntries }

InitValidate ==
  /\ \E t \in ValidateTranscripts :
     \E d \in {StartOf(t[Len(t)]), 40000} :
       va_transcript = [duration_seconds |-> d, total_entries |-> Len(t),
                        transcript |-> t]
  /\ va_results = NoResults
  /\ va_done = FALSE
  /\ ChunkIdle
  /\ ParseIdle
  /\ EntryIdle
  /\ RunIdle
  /\ CacheIdle
  /\ UploadIdle
  /\ InstanceIdle
  /\ BatchIdle
  /\ ProjectIdle

ValidateTranscript ==
  /\ ~va_done
  /\ va_results' = validate_transcript_object(va_transcript)
  /\ va_done' = TRUE
  /\ UNCHANGED <<va_transcript, chunkVars, parseVars, entryVars, runVars,
                 cacheVars, uploadVars, instVars, batchVars, projVars>>

NextValidate == ValidateTranscript
SpecValidate == InitValidate /\ [][NextValidate]_vars

(***************************************************************************)
(* Claims on the validator rules (SpecValidate).                           *)
(***************************************************************************)
\* The transcript reduced to the entries of one type.
GroupOf(transcript, type) ==
  [transcript EXCEPT
     !.transcript = SelectSeq(transcript.transcript, LAMBDA e : e.type = type)]

\* What the issues of given types say, apart from the positions of the
\* entries in the list: <<issue_type, start_time, end_time>>.
Spans(issues, types) ==
  { <<issues[k].issue_type, issues[k].start_time, issues[k].end_time>> :
      k \in {j \in 1..Len(issues) : issues[j].issue_type \in types} }

RuleTypes == {"chronological_order", "gap", "overlap"}

\* C18: the order, gap and overlap issues of a transcript are those of its
\* utterances alone together with those of its events alone.
C18_RulesWithinOneGroup ==
  va_done =>
    Spans(va_results.issues, RuleTypes) =
      Spans(validate_transcript_object(GroupOf(va_transcript, "utterance"))
              .issues, RuleTypes)
        \cup Spans(validate_transcript_object(GroupOf(va_transcript, "event"))
                     .issues, RuleTypes)

\* The entries of one type with their times, in the order of their starts.
GroupEntries(type) ==
  sorted_by_start_seconds(
    OfType(parse_transcript_entries(va_transcript.transcript), type))

\* The start and end times of the issues of one type.
IssueSpans(issues, type) ==
  { <<issues[k].start_time, issues[k].end_time>> :
      k \in {j \in 1..Len(issues) : issues[j].issue_type = type} }

\* The holes longer than the threshold between consecutive entries of g.
InnerGaps(g) ==
  {k \in 1..(Len(g) - 1) :
     g[k + 1].start_seconds - g[k].end_seconds > GapThresholdMs}

\* The gaps of a group that is sorted by start, as [from, to].
GroupGaps(g, total_duration) ==
  IF g = <<>> THEN {}
  ELSE (IF g[1].start_seconds > GapThresholdMs
        THEN {<<0, g[1].start_seconds>>} ELSE {})
       \cup {<<g[k].end_seconds, g[k + 1].start_seconds>> : k \in InnerGaps(g)}
       \cup (IF total_duration - g[Len(g)].end_seconds > GapThresholdMs
             THEN {<<g[Len(g)].end_seconds, total_duration>>} ELSE {})

\* C19: the gap issues are, for each group sorted by start, the gap before
\* the first entry, the gaps between consecutive entries and the gap after
\* the last entry that exceed the threshold, and no other.
C19_GapRule ==
  va_done =>
    IssueSpans(va_results.issues, "gap") =
      GroupGaps(GroupEntries("utterance"), va_transcript.duration_seconds)
        \cup GroupGaps(GroupEntries("event"), va_transcript.duration_seconds)

\* The consecutive entries of g of which the later starts before the
\* earlier ends.
OverlappingPairs(g) ==
  {k \in 1..(Len(g) - 1) : g[k + 1].start_seconds < g[k].end_seconds}

\* The overlaps of a group sorted by start, as [curr.start, prev.end].
GroupOverlaps(g) ==
  {<<g[k + 1].start_seconds, g[k].end_seconds>> : k \in OverlappingPairs(g)}

\* C20: the overlap issues are, for each group sorted by start, one issue
\* per consecutive pair with curr.start < prev.end, reaching from curr.start
\* to prev.end, so that its length is prev.end - curr.start.
C20_OverlapRule ==
  va_done =>
    /\ IssueSpans(va_results.issues, "overlap") =
         GroupOverlaps(GroupEntries("utterance"))
           \cup GroupOverlaps(GroupEntries("event"))
    /\ va_results.overlaps_found =
         Cardinality(OverlappingPairs(GroupEntries("utterance")))
           + Cardinality(OverlappingPairs(GroupEntries("event")))

\* The utterances [0, 10] and [8, 15], validated: one overlap issue, 2 s long.
C20_OneOverlapOfTwoSeconds ==
  /\ va_done
  /\ va_transcript.transcript =
       <<ValidateEntry("utterance", <<0, 10>>),
         ValidateEntry("utterance", <<8, 15>>)>>
  /\ va_results.overlaps_found = 1
  /\ IssueSpans(va_results.issues, "overlap") = {<<8000, 10000>>}

(***************************************************************************)
(* Claims on the rank inversion rule and the producer's emission order     *)
(* (Spec).                                                                 *)
(***************************************************************************)
\* The entries of one type in the order in which the segments' answers
\* list them, before create_full_transcript sorts them.
EmittedGroup(transcript_analysis, type) ==
  SelectSeq(collect_entries(transcript_analysis), LAMBDA e : e.type = type)

\* The positions k of a group where the entry emitted next starts before
\* the entry emitted at k.
Inversions(group) ==
  {k \in 1..(Len(group) - 1) :
     group[k + 1].absolute_time < group[k].absolute_time}

RankInversionIssues(issues) ==
  {k \in 1..Len(issues) : /\ issues[k].issue_type = "chronological_order"
                          /\ issues[k].severity = "error"}

\* C21: once a run has written its report, every adjacent pair of a
\* group's emission order whose later entry starts before the earlier one
\* is flagged by an error-severity chronological_order issue that names
\* the start of the later entry.
C21_RankInversionFlagged ==
  (run_pc = "done" /\ run_report.written) =>
    \A type \in {"event", "utterance"} :
      \A k \in Inversions(EmittedGroup(run_all_transcripts, type)) :
        \E n \in RankInversionIssues(run_report.issues) :
          run_report.issues[n].start_time =
            EmittedGroup(run_all_transcripts, type)[k + 1].absolute_time

(***************************************************************************)
(* Claims on the shapes of answer the dispatcher tolerates (Spec).         *)
(***************************************************************************)
\* The entries that the answer of a call lists, fences and wrapping apart.
listed_entries(value) ==
  IF value.t = "list" THEN value.v ELSE value.v.transcript.v

AnswerEntries(outcome) ==
  listed_entries(
    SelectSeq(outcome.text, LAMBDA x : x.t \in {"list", "object"})[1])

\* A bare array in a json fence, an object in a bare fence, entries with
\* missing and extra fields.
ToleratedOutcomes == {BareArrayOutcome, PlainFenceOutcome, SparseOutcome}

\* The call ended without an error and with as many entries as listed.
KeepsEntries(future) ==
  /\ ~future.done.raised
  /\ ~Truthy(Get(future.done.result, "error", ""))
  /\ Len(Get(future.done.result, "transcript", JList(<<>>)).v)
       = Len(AnswerEntries(future.outcome))

\* C22: a segment whose answer is a bare array, is wrapped in a fenced
\* code block, or has entries with missing or extra fields ends without
\* an error and keeps every entry of the answer.
C22_ToleratedShapesKeepEntries ==
  \A i \in InState("done") :
    run_futures[i].outcome \in ToleratedOutcomes => KeepsEntries(run_futures[i])

\* The same for the shapes other than the bare fence.
C22_JsonFenceArrayAndSparseKept ==
  \A i \in InState("done") :
    run_futures[i].outcome \in {BareArrayOutcome, SparseOutcome}
      => KeepsEntries(run_futures[i])

(***************************************************************************)
(* ai/gemini_client.py: the upload path of one run.  A run has one call of *)
(* analyze_chunk_upload per chunk of 20 MB or more; the calls are taken    *)
(* one after the other.  A chunk is named by the hash of its content, an   *)
(* uploaded file by the number of the call that uploaded it.  Times are    *)
(* in seconds; only time.sleep takes time, so that a loop makes as many    *)
(* polls as it can.  The service decides the state of a file at every      *)
(* files.upload and files.get, and whether generate_content raises.        *)
(***************************************************************************)
MaxUploads == 2

max_wait_time == 300
poll_interval == 5

FileHashes == {1, 2}
FileStates == {"PROCESSING", "ACTIVE", "FAILED"}

\* The loop that never gives up.
poll_timed_out_never(elapsed) == FALSE

\* if time.time() - start_time > max_wait_time
poll_timed_out(elapsed) == elapsed > max_wait_time

\* cache_entry and cache_entry.get('state') == 'ACTIVE' and 'file_id' in it
cached_active(cache, file_hash) ==
  Has(cache, file_hash) /\ cache[file_hash].state = "ACTIVE"

\* self.uploaded_files_cache[file_hash] = {'file_id': ..., 'state': ...}
save_upload(cache, file_hash, uploaded_file) ==
  Put(cache, file_hash,
      [file_id |-> uploaded_file.file_id, state |-> uploaded_file.state])

\* The file ids that cleanup_uploaded_files deletes.
cached_file_ids(cache) == {cache[h].file_id : h \in DOMAIN cache}

\* The rest of the state is not touched by the client.
UploadFrame ==
  UNCHANGED <<chunkVars, parseVars, entryVars, runVars, cacheVars,
              validateVars, instVars, batchVars, projVars>>

CallResult(upload, error) == [upload |-> upload, error |-> error]

InitUpload ==
  /\ \E n \in 1..MaxUploads : up_chunks \in [1..n -> FileHashes]
  /\ up_cleanup \in BOOLEAN
  /\ up_next = 1
  /\ up_pc = "idle"
  /\ up_file = NoUpload
  /\ up_elapsed = 0
  /\ up_polls = 0
  /\ up_results = <<>>
  /\ up_remote = {}
  /\ up_cache = <<>>
  /\ up_cleaned = FALSE
  /\ ChunkIdle
  /\ ParseIdle
  /\ EntryIdle
  /\ RunIdle
  /\ CacheIdle
  /\ ValidateIdle
  /\ InstanceIdle
  /\ BatchIdle
  /\ ProjectIdle

\* The call ends: its result is recorded and the next call may begin.
EndCall(upload, error) ==
  /\ up_results' = Append(up_results, CallResult(upload, error))
  /\ up_next' = up_next + 1
  /\ up_pc' = "idle"
  /\ up_file' = NoUpload
  /\ up_elapsed' = 0
  /\ up_polls' = 0

\* _get_or_upload_file finds an ACTIVE cache entry whose file the service
\* still reports ACTIVE; generate_content follows.
UseCachedFile ==
  /\ up_pc = "idle" /\ ~up_cleaned /\ up_next <= Len(up_chunks)
  /\ cached_active(up_cache, up_chunks[up_next])
  /\ \E raises \in BOOLEAN : EndCall("cached", raises)
  /\ UNCHANGED <<up_chunks, up_cleanup, up_remote, up_cache, up_cleaned>>
  /\ UploadFrame

\* files.upload raises: the call returns an error, nothing is uploaded.
UploadRaises ==
  /\ up_pc = "idle" /\ ~up_cleaned /\ up_next <= Len(up_chunks)
  /\ EndCall("upload_raised", TRUE)
  /\ UNCHANGED <<up_chunks, up_cleanup, up_remote, up_cache, up_cleaned>>
  /\ UploadFrame

\* files.upload returns a new file (no cache entry, or a cached file that
\* is no longer ACTIVE); start_time = time.time().
UploadFile ==
  /\ up_pc = "idle" /\ ~up_cleaned /\ up_next <= Len(up_chunks)
  /\ \E state \in FileStates :
       up_file' = [file_id |-> up_next, state |-> state]
  /\ up_remote' = up_remote \cup {up_next}
  /\ up_pc' = "polling"
  /\ up_elapsed' = 0
  /\ up_polls' = 0
  /\ UNCHANGED <<up_chunks, up_cleanup, up_next, up_results, up_cache,
                 up_cleaned>>
  /\ UploadFrame

\* One iteration of  while uploaded_file.state == "PROCESSING".
Poll ==
  /\ up_pc = "polling" /\ up_file.state = "PROCESSING"
  /\ IF poll_timed_out(up_elapsed) THEN EndCall("timeout", TRUE)
     ELSE
       /\ up_elapsed' = up_elapsed + poll_interval
       /\ up_polls' = up_polls + 1
       /\ \E state \in FileStates : up_file' = [up_file EXCEPT !.state = state]
       /\ UNCHANGED <<up_next, up_pc, up_results>>
  /\ UNCHANGED <<up_chunks, up_cleanup, up_remote, up_cache, up_cleaned>>
  /\ UploadFrame

\* After the loop: a file that is not ACTIVE raises; an ACTIVE file is
\* saved to the cache and generate_content answers or raises.
FinishUpload ==
  /\ up_pc = "polling" /\ up_file.state # "PROCESSING"
  /\ IF up_file.state # "ACTIVE" THEN
       /\ EndCall("failed", TRUE)
       /\ UNCHANGED up_cache
     ELSE
       /\ up_cache' = save_upload(up_cache, up_chunks[up_next], up_file)
       /\ \E raises \in BOOLEAN : EndCall("ready", raises)
  /\ UNCHANGED <<up_chunks, up_cleanup, up_remote, up_cleaned>>
  /\ UploadFrame

\* The end of the run: if config.cleanup_uploaded_files, the client deletes
\* the files of its cache and clears the cache.
EndOfRun ==
  /\ up_pc = "idle" /\ ~up_cleaned /\ up_next > Len(up_chunks)
  /\ up_cleaned' = TRUE
  /\ IF up_cleanup
     THEN /\ up_remote' = up_remote \ cached_file_ids(up_cache)
          /\ up_cache' = <<>>
     ELSE UNCHANGED <<up_remote, up_cache>>
  /\ UNCHANGED <<up_chunks, up_cleanup, up_next, up_pc, up_file, up_elapsed,
                 up_polls, up_results>>
  /\ UploadFrame

NextUpload ==
  \/ UseCachedFile
  \/ UploadRaises
  \/ UploadFile
  \/ Poll
  \/ FinishUpload
  \/ EndOfRun

SpecUpload == InitUpload /\ [][NextUpload]_vars

\* Every thread of the pool and the main thread keep running.
SpecUploadFair == SpecUpload /\ WF_vars(NextUpload)

(***************************************************************************)
(* Claims on the upload path (SpecUpload, SpecUploadFair).                 *)
(***************************************************************************)
\* The greatest number of files.get calls one loop can make.
PollBound == max_wait_time \div poll_interval + 1

UploadEnded(result) == result.upload \in {"ready", "cached"} \/ result.error

\* C23: the loop that waits for an uploaded file polls at most
\* max_wait_time / poll_interval + 1 times, every call that has uploaded
\* its file ends, and every ended call has a ready upload or an error.
C23_PollLoopBounded ==
  /\ [](up_polls <= PollBound)
  /\ [](\A i \in 1..Len(up_results) : UploadEnded(up_results[i]))
  /\ [](up_pc = "polling" => <>(up_pc = "idle"))

\* A call has ended in a timeout error and the loop of the next call has
\* made the greatest number of polls.
C23_TimedOutAfterLastPoll ==
  /\ up_results # <<>>
  /\ up_results[Len(up_results)].upload = "timeout"
  /\ up_results[Len(up_results)].error
  /\ up_pc = "polling"
  /\ up_polls = PollBound
  /\ up_elapsed > max_wait_time

\* C30: once the end-of-run cleanup has run with cleanup enabled, no file
\* uploaded during the run is left on the service.
C30_UploadsDeletedByCleanup ==
  (up_cleaned /\ up_cleanup) => up_remote = {}

(***************************************************************************)
(* Claims on the minimized projection (Spec).                              *)
(***************************************************************************)
ProjectionFields == {"type", "start_time", "end_time", "speaker", "text", "visual"}
RequiredFields == {"type", "start_time", "end_time", "text"}

\* The projection of a timeline entry has no field beside the six, has the
\* four required ones, and lacks speaker or visual only when it is empty.
ProjectedAsStated(entry) ==
  /\ clean_entry_keys(entry) \subseteq ProjectionFields
  /\ RequiredFields \subseteq clean_entry_keys(entry)
  /\ "speaker" \notin clean_entry_keys(entry) => entry.speaker = ""
  /\ "visual" \notin clean_entry_keys(entry) => entry.visual_description = <<>>

\* The same without the requirement that text is present.
ProjectedButForText(entry) ==
  /\ clean_entry_keys(entry) \subseteq ProjectionFields
  /\ RequiredFields \ {"text"} \subseteq clean_entry_keys(entry)
  /\ "speaker" \notin clean_entry_keys(entry) => entry.speaker = ""
  /\ "visual" \notin clean_entry_keys(entry) => entry.visual_description = <<>>
  /\ "text" \notin clean_entry_keys(entry) => clean_entry(entry).text = <<>>

\* C24: the minimized projection of every entry of the written timeline
\* retains only type, start, end, speaker, text and visual, and elides only
\* speaker and visual, and only when they are empty.
C24_ProjectionKeepsRequiredFields ==
  run_timeline.written =>
    \A i \in 1..Len(run_timeline.transcript) :
      ProjectedAsStated(run_timeline.transcript[i])

C24_OnlyEmptyFieldsElided ==
  run_timeline.written =>
    \A i \in 1..Len(run_timeline.transcript) :
      /\ ProjectedButForText(run_timeline.transcript[i])
      /\ DOMAIN clean_entry_dict(run_timeline.transcript[i])
           = clean_entry_keys(run_timeline.transcript[i])

(***************************************************************************)
(* SpecInstance: successive calls on one pipeline object, as the batch     *)
(* processors make them.  The object has one run directory, which holds    *)
(* videos/<video_id>.mp4, chunks/<video_id>_metadata.json with the chunk   *)
(* files, and transcripts/<video_id>_full_transcript.json, and it uses the *)
(* global cache directory.  A video is named by its path, a sequence of    *)
(* name parts; the path stands for the content of the file.  The service   *)
(* answers every segment.                                                  *)
(***************************************************************************)
MaxCalls == 3

InstanceVideos ==
  { [video_input |-> <<"a", "/", "lecture">>, duration |-> 24000],
    [video_input |-> <<"b", "/", "lecture">>, duration |-> 36000],
    [video_input |-> <<"a", "/", "lecture", "_", "2">>, duration |-> 12000] }

\* The chunk durations asked for a video.
InstanceChunkDurations(video) ==
  IF video.video_input = <<"a", "/", "lecture">> THEN {12, 24} ELSE {12}

InstanceRequests ==
  UNION { { [video |-> v, chunk_duration |-> d] :
              d \in InstanceChunkDurations(v) } : v \in InstanceVideos }

\* Path(video_input).stem
get_video_id(video_input) ==
  SubSeq(video_input,
         1 + SetMax({0} \cup {i \in 1..Len(video_input) : video_input[i] = "/"}),
         Len(video_input))

InstanceVideoIds == {get_video_id(v.video_input) : v \in InstanceVideos}

instance_config(request) ==
  [video_input |-> request.video.video_input,
   chunk_duration |-> request.chunk_duration,
   chunk_size_mb |-> NoChunkSize,
   max_workers |-> BaseSettings.max_workers,
   model |-> BaseSettings.model,
   pipeline_version |-> <<"1", ".", "0">>,
   force_reprocess |-> FALSE]

\* copy_video: dest_path = videos/<video_id>.mp4 is kept if it exists.
copy_video(videos, video, video_id) ==
  IF Has(videos, video_id) THEN videos ELSE Put(videos, video_id, video)

\* The metadata create_chunks writes for the video at video_path.
chunks_metadata(video, config) ==
  [original_path |-> video.video_input,
   chunk_duration |-> config.chunk_duration,
   chunks |-> chunk_boundaries(video.duration, config.chunk_duration,
                               config.chunk_size_mb, TalkFile)]

\* create_chunks: the metadata of video_id is returned as it is when its
\* chunk files exist; nothing removes them from the run directory.
create_chunks(chunk_store, video, video_id, config) ==
  IF Has(chunk_store, video_id) THEN chunk_store
  ELSE Put(chunk_store, video_id, chunks_metadata(video, config))

\* The name of a cache file; # stands for the sixteen hex digits of the
\* configuration hash.
cache_file_name(video_id) == video_id \o <<"_", "#", ".json">>

StartsWith(name, prefix) ==
  Len(prefix) <= Len(name) /\ SubSeq(name, 1, Len(prefix)) = prefix

\* glob(f"{video_id}_*.json") on a name that ends with .json.
glob_matches(video_id, name) == StartsWith(name, video_id \o <<"_">>)

\* The cache files that clear_transcript_cache unlinks; without a video
\* id (None or '') it unlinks them all.
cleared_files(files, video_id) ==
  IF video_id = <<>> THEN files
  ELSE {f \in files : glob_matches(video_id, cache_file_name(f.key[1]))}

InitInstance ==
  /\ InstanceIdle
  /\ BatchIdle
  /\ ProjectIdle
  /\ ChunkIdle
  /\ ParseIdle
  /\ EntryIdle
  /\ RunIdle
  /\ CacheIdle
  /\ ValidateIdle
  /\ UploadIdle

InstanceFrame ==
  UNCHANGED <<chunkVars, parseVars, entryVars, runVars, cacheVars,
              validateVars, uploadVars, batchVars, projVars>>

\* process_video after a cache miss: steps 2 to 9.
ProcessNewTranscript(request, config, video_id, key, files, videos, chunk_store) ==
  /\ inst_videos' = videos
  /\ inst_chunks' = chunk_store
  /\ inst_transcripts' =
       Put(inst_transcripts, video_id,
           [key |-> key, segments |-> chunk_store[video_id]])
  /\ inst_cache' = save_transcript_cache(files, key, video_id, config)
  /\ inst_last' = [op |-> "processed", request |-> request, key |-> key,
                   segments |-> chunk_store[video_id]]

\* process_video when the cache check finds the transcript.
UseExistingTranscript(request, key, cached_data) ==
  /\ inst_last' = [op |-> "cached", request |-> request, key |-> key,
                   served |-> inst_transcripts[cached_data.transcript_path]]
  /\ UNCHANGED <<inst_videos, inst_chunks, inst_transcripts, inst_cache>>

ProcessNextVideo ==
  /\ inst_calls < MaxCalls
  /\ inst_calls' = inst_calls + 1
  /\ \E request \in InstanceRequests :
     \E config \in {instance_config(request)} :
     \E video_id \in {get_video_id(config.video_input)} :
     \E key \in {cache_key(video_id, config)} :
     \E checked \in {check_existing_transcript(inst_cache,
                                               DOMAIN inst_transcripts, key)} :
       IF checked.hit
       THEN UseExistingTranscript(request, key, checked.cached_data)
       ELSE
         \E videos \in {copy_video(inst_videos, request.video, video_id)} :
           ProcessNewTranscript(request, config, video_id, key, checked.files,
                                videos,
                                create_chunks(inst_chunks, videos[video_id],
                                              video_id, config))
  /\ InstanceFrame

ClearTranscriptCache ==
  /\ inst_calls < MaxCalls
  /\ inst_calls' = inst_calls + 1
  /\ \E video_id \in InstanceVideoIds \cup {<<>>} :
     \E cleared \in {cleared_files(inst_cache, video_id)} :
       /\ inst_cache' = inst_cache \ cleared
       /\ inst_last' = [op |-> "cleared", video_id |-> video_id,
                        cleared |-> cleared]
  /\ UNCHANGED <<inst_videos, inst_chunks, inst_transcripts>>
  /\ InstanceFrame

NextInstance ==
  \/ ProcessNextVideo
  \/ ClearTranscriptCache

SpecInstance == InitInstance /\ [][NextInstance]_vars

(***************************************************************************)
(* Claims on one pipeline object used for several videos (SpecInstance).   *)
(***************************************************************************)
\* The segments computed from the media and the chunking parameters of a
\* request.
OwnSegments(request) ==
  chunks_metadata(request.video, instance_config(request))

\* C25: the segments a run dispatches are the ones computed from the run's
\* own source media and chunking parameters; what an earlier run left
\* under the same video id is used only if it is the same.
C25_SegmentsOfOwnMedia ==
  inst_last.op = "processed" =>
    inst_last.segments = OwnSegments(inst_last.request)

\* C26: a cache hit serves a timeline produced under the fingerprint of
\* the request, and the artifact a cache entry references is the one
\* produced under that entry's fingerprint.
C26_HitServesOwnFingerprint ==
  /\ inst_last.op = "cached" => inst_last.served.key = inst_last.key
  /\ \A f \in inst_cache :
       f.transcript_path \in DOMAIN inst_transcripts =>
         inst_transcripts[f.transcript_path].key = f.key

\* C28: clear_transcript_cache(video_id) removes exactly the cache entries
\* of that video: the removed entries are that video's, none of that video
\* is left, and so every entry of another video is still there.
C28_ClearsOnlyThatVideo ==
  (inst_last.op = "cleared" /\ inst_last.video_id # <<>>) =>
    /\ \A f \in inst_last.cleared : f.key[1] = inst_last.video_id
    /\ \A f \in inst_cache : f.key[1] # inst_last.video_id

\* C28 without the entries of the videos whose id extends the cleared id.
C28_NoEntryOfThatVideoLeft ==
  (inst_last.op = "cleared" /\ inst_last.video_id # <<>>) =>
    /\ \A f \in inst_last.cleared :
         StartsWith(f.key[1], inst_last.video_id)
    /\ \A f \in inst_cache : f.key[1] # inst_last.video_id
    /\ inst_cache \cap inst_last.cleared = {}

(***************************************************************************)
(* Batch processing: BatchTranscriptionProcessor.process_all_videos walks  *)
(* the fetched videos and calls process_video for each.  A fetched video   *)
(* is described by what its processing meets: whether the API record names *)
(* a path, whether the S3 download succeeds and whether the pipeline       *)
(* raises.  The video id is the position in the fetched list (the API      *)
(* gives distinct ids).                                                    *)
(***************************************************************************)
MaxVideos == 3

VideoInfos ==
  { [path |-> FALSE, download |-> "failed", transcribe |-> "raises"],
    [path |-> TRUE, download |-> "failed", transcribe |-> "raises"],
    [path |-> TRUE, download |-> "success", transcribe |-> "raises"],
    [path |-> TRUE, download |-> "success", transcribe |-> "ok"] }

FetchedLists ==
  UNION {[1..n -> VideoInfos] : n \in 0..MaxVideos}

\* The parameters NotificationClient.notify_success and notify_error
\* declare besides self.
notify_success_params == {"video_id"}
notify_error_params == {"video_id", "error_message"}

\* The arguments process_video passes to them.
notify_success_args == {"video_id", "output_directory"}
notify_error_args == {"video_id", "error_message", "output_directory"}

\* A call that passes a keyword the method does not declare raises
\* TypeError before the method body runs.
call_raises(params, args) == ~(args \subseteq params)

VideoRaised == [raised |-> TRUE]
VideoReturned(result, notifications) ==
  [raised |-> FALSE, result |-> result, notifications |-> notifications]

Notification(video_id, status) == [video_id |-> video_id, status |-> status]

\* The except branch of process_video: notify_error, then the failure
\* record.
process_video_except(video_id, download_status) ==
  IF call_raises(notify_error_params, notify_error_args) THEN VideoRaised
  ELSE VideoReturned([success |-> FALSE, video_id |-> video_id,
                 download_status |-> download_status],
                <<Notification(video_id, "Error")>>)

\* process_video: what it returns and the notifications it sends, or that
\* an exception leaves it.
process_video(video_info, video_id) ==
  IF ~video_info.path
  THEN VideoReturned([success |-> FALSE, video_id |-> video_id,
                 download_status |-> "none"], <<>>)
  ELSE IF video_info.download = "failed"
  THEN process_video_except(video_id, "failed")
  ELSE IF video_info.transcribe = "raises"
  THEN process_video_except(video_id, "success")
  ELSE IF call_raises(notify_success_params, notify_success_args)
  THEN process_video_except(video_id, "success")
  ELSE VideoReturned([success |-> TRUE, video_id |-> video_id,
                 download_status |-> "success"],
                <<Notification(video_id, "Completed")>>)

\* After fetch_videos_to_transcribe.
InitBatch ==
  /\ batch_videos \in FetchedLists
  /\ batch_next = 1
  /\ batch_pc = "running"
  /\ batch_results = <<>>
  /\ batch_notifications = <<>>
  /\ ChunkIdle
  /\ ParseIdle
  /\ EntryIdle
  /\ RunIdle
  /\ CacheIdle
  /\ ValidateIdle
  /\ UploadIdle
  /\ InstanceIdle
  /\ ProjectIdle

BatchFrame ==
  UNCHANGED <<chunkVars, parseVars, entryVars, runVars, cacheVars,
              validateVars, uploadVars, instVars, projVars>>

\* One turn of the loop in which process_video returns a record.
ProcessVideoReturns ==
  /\ batch_pc = "running"
  /\ batch_next <= Len(batch_videos)
  /\ \E outcome \in {process_video(batch_videos[batch_next], batch_next)} :
       /\ ~outcome.raised
       /\ batch_results' = Append(batch_results, outcome.result)
       /\ batch_notifications' = batch_notifications \o outcome.notifications
  /\ batch_next' = batch_next + 1
  /\ UNCHANGED <<batch_videos, batch_pc>>
  /\ BatchFrame

\* One turn of the loop in which an exception leaves process_video: the
\* loop has no handler, so it leaves process_all_videos too.
ProcessVideoRaises ==
  /\ batch_pc = "running"
  /\ batch_next <= Len(batch_videos)
  /\ process_video(batch_videos[batch_next], batch_next).raised
  /\ batch_pc' = "aborted"
  /\ UNCHANGED <<batch_videos, batch_next, batch_results,
                 batch_notifications>>
  /\ BatchFrame

\* The loop is over (or nothing was fetched): batch_summary.json is
\* written with the collected results.
WriteSummary ==
  /\ batch_pc = "running"
  /\ batch_next > Len(batch_videos)
  /\ batch_pc' = "completed"
  /\ UNCHANGED <<batch_videos, batch_next, batch_results,
                 batch_notifications>>
  /\ BatchFrame

NextBatch ==
  \/ ProcessVideoReturns
  \/ ProcessVideoRaises
  \/ WriteSummary

SpecBatch == InitBatch /\ [][NextBatch]_vars

BatchEnded == batch_pc \in {"completed", "aborted"}

FailsInProcessing(video_info) ==
  /\ video_info.path
  /\ video_info.download = "failed" \/ video_info.transcribe = "raises"

ResultsOf(video_id) ==
  {k \in DOMAIN batch_results : batch_results[k].video_id = video_id}

NotificationsOf(video_id) ==
  {k \in DOMAIN batch_notifications :
     batch_notifications[k].video_id = video_id}

\* C29: when the batch has ended there is one result per fetched video,
\* and every video whose download or transcription failed has exactly one
\* result record and exactly one notification.
C29_FailureRecordedBatchContinues ==
  BatchEnded =>
    /\ Len(batch_results) = Len(batch_videos)
    /\ \A i \in DOMAIN batch_videos :
         FailsInProcessing(batch_videos[i]) =>
           /\ Cardinality(ResultsOf(i)) = 1
           /\ Cardinality(NotificationsOf(i)) = 1

\* What does hold: a batch that reaches its summary holds one result per
\* fetched video, and no video ever has more than one result or more than
\* one notification.
C29_SummaryHoldsOneResultPerVideo ==
  /\ batch_pc = "completed" => Len(batch_results) = Len(batch_videos)
  /\ \A i \in DOMAIN batch_videos :
       /\ Cardinality(ResultsOf(i)) <= 1
       /\ Cardinality(NotificationsOf(i)) <= 1

(***************************************************************************)
(* The times of one entry on their way to the validator: the analyzer      *)
(* makes them absolute (process_transcript_entry), the combiner writes     *)
(* them as timestamps (full_entry), the formatter cuts the timestamps for  *)
(* the clean transcript (clean_entry) and the validator reads them back    *)
(* (_time_string_to_seconds).  A segment starts at a multiple of the       *)
(* default segment length of 300 s; the entry times are seconds within     *)
(* the segment.                                                            *)
(***************************************************************************)
ProjectChunkStarts == {0, 3000000, 3300000, 3600000, 7200000}

ProjectSeconds == {0, 5, 59, 60, 125, 299}

ProjectIntervals ==
  {i \in ProjectSeconds \X ProjectSeconds : i[1] <= i[2]}

ProjectEntries ==
  {Utterance(i[1], i[2], "A", <<"hello">>) : i \in ProjectIntervals}

InitProject ==
  /\ pj_chunk_start \in ProjectChunkStarts
  /\ pj_entry \in ProjectEntries
  /\ pj_processed = <<>>
  /\ pj_full = <<>>
  /\ pj_clean = <<>>
  /\ pj_done = FALSE
  /\ ChunkIdle
  /\ ParseIdle
  /\ EntryIdle
  /\ RunIdle
  /\ CacheIdle
  /\ ValidateIdle
  /\ UploadIdle
  /\ InstanceIdle
  /\ BatchIdle

\* Steps 4 to 6 of process_video for one entry.
ProjectEntry ==
  /\ ~pj_done
  /\ \E processed \in {process_transcript_entry(pj_entry, pj_chunk_start)} :
     \E full \in {full_entry(processed, pj_chunk_start)} :
       /\ pj_processed' = processed
       /\ pj_full' = full
       /\ pj_clean' = clean_entry(full)
  /\ pj_done' = TRUE
  /\ UNCHANGED <<pj_chunk_start, pj_entry>>
  /\ UNCHANGED <<chunkVars, parseVars, entryVars, runVars, cacheVars,
                 validateVars, uploadVars, instVars, batchVars>>

NextProject == ProjectEntry
SpecProject == InitProject /\ [][NextProject]_vars

\* A time in milliseconds cut to the whole second.
WholeSecond(ms) == (ms \div 1000) * 1000

OneHourMs == 3600000

\* The start and the end that the validator reads from the clean entry are
\* the absolute start and end of the entry, to the whole second.
ValidatorTimesAgree ==
  /\ time_string_to_seconds(pj_clean.start_time).val
       = WholeSecond(pj_processed.fields["absolute_start_time"])
  /\ time_string_to_seconds(pj_clean.end_time).val
       = WholeSecond(pj_processed.fields["absolute_end_time"])

\* C27: for every entry, the start and end written to the clean transcript
\* denote the entry's absolute start and end to the whole second, also for
\* entries at or beyond one hour.
C27_ProjectionDenotesAbsoluteTime ==
  pj_done => ValidatorTimesAgree

\* What does hold: the times agree for an entry that ends before one hour,
\* and the timeline itself carries the absolute start at every time.
C27_AgreesBelowOneHour ==
  pj_done =>
    /\ pj_full.absolute_time = pj_processed.fields["absolute_start_time"]
    /\ pj_full.time = format_timestamp(pj_full.absolute_time)
    /\ pj_processed.fields["absolute_end_time"] < OneHourMs =>
         ValidatorTimesAgree

====
